---------------------------- MODULE Spec2Model ----------------------------
(***************************************************************************)
(* Model of src/instant_instance_operation_v2.py: the worker lifecycle     *)
(* manager (InstantInstanceOperationV2.execute_batch and its helpers), the *)
(* distribution planner and the parallel orchestrator                      *)
(* (execute_parallel_batches with its nested process_batch).               *)
(*                                                                         *)
(* Python dicts are functions whose DOMAIN is the set of keys present, so  *)
(* that dict.get(key, default) and a missing key are what the code makes   *)
(* of them.  None is 0 for instance ids and addresses.                     *)
(*                                                                         *)
(* Fault model.  The external collaborators fail as section 7 of the       *)
(* specification lists them: instance creation, the network wait, the      *)
(* health wait, a job request, an artifact download.  In addition a job    *)
(* may raise out of process_single_scene (its debug-file write is outside  *)
(* any try), the manager's constructor may raise, the per-batch directory  *)
(* creation of process_batch may raise, and the orchestrator itself may    *)
(* raise while fanning out or aggregating.                                 *)
(***************************************************************************)
EXTENDS Integers, Sequences, FiniteSets, TLC

\* ---------------------------------------------------------------- bounds
\* Calls of execute_batch made on one manager object (Spec).
MaxCalls == 2
\* Jobs given to one direct call of execute_batch (Spec).
MaxBatchScenes == 2
\* Jobs given to one parallel run (SpecParallel).
MaxScenes == 2
\* Largest max_parallel_instances tried (SpecParallel).
MaxWorkers == 2
\* Partition records given to the aggregation (SpecAggregate).
MaxPartitions == 3
\* Largest arguments given to the planner (SpecPlanner), besides the totals of
\* the documented examples.
MaxTotalScenes == 12
MaxScenesPerBatch == 10
MaxParallelInstances == 10
MaxMinScenesPerBatch == 5

VARIABLES
    ops,               \* manager objects: id -> the object's attributes and, while a
                       \* call of execute_batch is on it, that call's locals
    terminate_calls,   \* EC2: instance id -> number of terminate requests received
    calls,             \* number of execute_batch calls started on manager 1 (Spec)
    par,               \* execute_parallel_batches: its locals and position
    threads,           \* process_batch: batch id -> locals and position of its thread
    results_lock,      \* threading.Lock: 0 when free, else the batch id holding it
    instance_results,  \* the shared result-accumulation list
    active_instances   \* the shared active-instance registry

vars == <<ops, terminate_calls, calls, par, threads, results_lock,
          instance_results, active_instances>>

parVars == <<par, threads, results_lock, instance_results, active_instances>>

\* ------------------------------------------------------------- helpers
None == 0

\* dict.get(key, default)
Get(d, k, default) == IF k \in DOMAIN d THEN d[k] ELSE default

\* d.update(e): keys of e override those of d
Update(d, e) == e @@ d

RECURSIVE SumSeq(_)
SumSeq(s) == IF s = <<>> THEN 0 ELSE Head(s) + SumSeq(Tail(s))

\* [r for r in batch_results if r.get("success")]
Successful(batch_results) == SelectSeq(batch_results, LAMBDA r : Get(r, "success", FALSE))

\* The id EC2 hands out for the c-th instance created through manager m.
InstanceId(m, c) == 100 * m + c

\* The address the instance reports once running.
PublicIp(id) == id

TerminateCount(id) == Get(terminate_calls, id, 0)

\* --------------------------------------------------- the manager object
\* InstantInstanceOperationV2.__init__: no _instance_kept_alive attribute yet
\* (instance_kept_alive = FALSE stands for "hasattr is false").
NewOperation ==
    [pc |-> "idle", instance_kept_alive |-> FALSE, batch_results |-> <<>>,
     timing_log |-> <<>>, start_time |-> None, instance_start_time |-> None,
     clock |-> 0, created |-> 0,
     scenes |-> <<>>, auto_terminate |-> FALSE, instance_id |-> None,
     public_ip |-> None, i |-> 0, success_count |-> 0,
     total_processing_time |-> 0, total_file_size |-> 0,
     downloaded_files |-> <<>>, k |-> 0, downloaded_count |-> 0,
     final_files |-> <<>>, download_for |-> "none", fault |-> "none",
     result_dict |-> << >>]

\* log_timing: append the event to self.timing_log
LogTiming(op, event) == [op EXCEPT !.timing_log = Append(@, event)]

\* One external call takes one tick of wall-clock time.
Tick(op) == [op EXCEPT !.clock = @ + 1]

\* calculate_cost at an hourly rate of one unit per tick
CalculateCost(op, runtime) == runtime

\* terminate_instance: logs, issues the EC2 request, swallows any failure
TerminateLogged(op, id) == LogTiming(op, <<"terminate", id>>)

TerminateRequested(tc, id) ==
    IF id \in DOMAIN tc THEN [tc EXCEPT ![id] = @ + 1] ELSE (id :> 1) @@ tc


\* ------------------------------------------------------- execute_batch
\* process_single_scene's results for scene name n
SceneSuccess(n) ==
    [scene_name |-> n, success |-> TRUE, file_id |-> n, download_url |-> n,
     file_size |-> 1, processing_time |-> 1]

SceneFailure(n, error, processing_time) ==
    [scene_name |-> n, success |-> FALSE, error |-> error,
     processing_time |-> processing_time]

\* the record execute_batch appends when process_single_scene returned None
SceneNone(n) ==
    [scene_name |-> n, success |-> FALSE, error |-> "Failed to process scene"]

\* except Exception: the failure result (timing_log and config_used, which
\* nothing modelled here reads, are left out)
FailureResult(op, error) ==
    [success |-> FALSE, error |-> error, total_scenes |-> Len(op.scenes),
     successful_scenes |-> Len(Successful(op.batch_results)),
     instance_id |-> op.instance_id,
     total_time |-> op.clock - op.start_time,
     batch_results |-> op.batch_results]

\* Faulty variant of SuccessResult: success requires every job to succeed.
SuccessResultAllSucceeded(op) ==
    [success |-> op.success_count = Len(op.scenes),
     total_scenes |-> Len(op.scenes),
     successful_scenes |-> op.success_count,
     failed_scenes |-> Len(op.scenes) - op.success_count,
     total_time |-> op.clock - op.start_time,
     total_file_size |-> op.total_file_size,
     instance_id |-> op.instance_id,
     public_ip |-> op.public_ip,
     batch_results |-> op.batch_results,
     cost_usd |-> CalculateCost(op, op.clock - op.instance_start_time),
     instance_kept_alive |-> TRUE,
     downloaded_files |-> op.downloaded_files,
     download_dir |-> "download_dir",
     download_count |-> Len(op.downloaded_files)]

\* the try block's result after the job loop
SuccessResult(op) ==
    [success |-> op.success_count > 0,
     total_scenes |-> Len(op.scenes),
     successful_scenes |-> op.success_count,
     failed_scenes |-> Len(op.scenes) - op.success_count,
     total_time |-> op.clock - op.start_time,
     total_file_size |-> op.total_file_size,
     instance_id |-> op.instance_id,
     public_ip |-> op.public_ip,
     batch_results |-> op.batch_results,
     cost_usd |-> CalculateCost(op, op.clock - op.instance_start_time),
     instance_kept_alive |-> TRUE,
     downloaded_files |-> op.downloaded_files,
     download_dir |-> "download_dir",
     download_count |-> Len(op.downloaded_files)]

\* An exception inside the try block: the except clause builds the failure
\* result and control passes to the finally clause.
Raise(op, error) ==
    [LogTiming(op, <<"failed", error>>) EXCEPT
        !.fault = error, !.result_dict = FailureResult(op, error), !.pc = "finally"]

\* Faulty variant of PostLoopOp: the manager's kept-alive flag is not set.
PostLoopOpNoFlag(op) ==
    [op EXCEPT !.result_dict = SuccessResult(op), !.pc = "finally"]

\* The post-loop statements of the try block: the kept-alive flag is set on the
\* manager whatever the success count, and the result is built.
PostLoopOp(op) ==
    [op EXCEPT !.instance_kept_alive = TRUE, !.result_dict = SuccessResult(op),
               !.pc = "finally"]

\* Faulty variant of FinallyBranch: with auto_terminate the instance is terminated at
\* once, without the download pass.
FinallyBranchNoDownload(op) ==
    IF op.instance_id = None THEN "none"
    ELSE IF op.auto_terminate THEN "terminate"
         ELSE (IF ~op.instance_kept_alive THEN "terminate" ELSE "keep")

\* Faulty variant of FinallyBranch: without auto_terminate the instance is kept
\* only when a job succeeded.
FinallyBranchKeepsOnSuccessOnly(op) ==
    IF op.instance_id = None THEN "none"
    ELSE IF op.auto_terminate
         THEN (IF Successful(op.batch_results) # <<>> THEN "download" ELSE "terminate")
         ELSE (IF ~op.instance_kept_alive \/ Successful(op.batch_results) = <<>>
               THEN "terminate" ELSE "keep")

\* What the finally clause does with the instance:
\*   "none"      no instance was created
\*   "download"  auto_terminate with successful results: download, then terminate
\*   "terminate" terminate at once
\*   "keep"      leave the instance running
FinallyBranch(op) ==
    IF op.instance_id = None THEN "none"
    ELSE IF op.auto_terminate
         THEN (IF Successful(op.batch_results) # <<>> THEN "download" ELSE "terminate")
         ELSE (IF ~op.instance_kept_alive THEN "terminate" ELSE "keep")

\* The finally clause of execute_batch, entered with the manager as the try
\* block's return or the except clause left it.
Finally(m, op) ==
    LET branch == FinallyBranch(op)
    IN  /\ ops' = [ops EXCEPT ![m] =
                     CASE branch = "download" ->
                            [op EXCEPT !.pc = "download_pass", !.k = 1,
                                       !.download_for = "finally"]
                       [] branch = "terminate" ->
                            [TerminateLogged(op, op.instance_id) EXCEPT !.pc = "returned"]
                       [] branch = "keep" ->
                            [LogTiming(op, <<"kept_alive", op.instance_id>>) EXCEPT
                                !.pc = "returned"]
                       [] OTHER -> [op EXCEPT !.pc = "returned"]]
        /\ terminate_calls' = IF branch = "terminate"
                              THEN TerminateRequested(terminate_calls, op.instance_id)
                              ELSE terminate_calls

\* The job loop goes on to the next scene; after the last one the try block
\* runs to its return and the finally clause follows.
LoopNext(m, op) ==
    IF op.i > Len(op.scenes)
    THEN Finally(m, PostLoopOp(op))
    ELSE ops' = [ops EXCEPT ![m] = op] /\ UNCHANGED terminate_calls

\* Lines 806-814: every call resets the per-call attributes of the manager;
\* _instance_kept_alive is not among them.
ExecuteBatchStart(m, scenes, auto_terminate) ==
    /\ ops[m].pc \in {"idle", "returned"}
    /\ ops' = [ops EXCEPT ![m] =
                 [@ EXCEPT !.pc = "create", !.start_time = ops[m].clock,
                           !.timing_log = <<>>, !.batch_results = <<>>,
                           !.scenes = scenes, !.auto_terminate = auto_terminate,
                           !.instance_id = None, !.public_ip = None, !.i = 0,
                           !.success_count = 0, !.total_processing_time = 0,
                           !.total_file_size = 0, !.downloaded_files = <<>>,
                           !.k = 0, !.downloaded_count = 0, !.final_files = <<>>,
                           !.download_for = "none",
                           !.fault = "none", !.result_dict = << >>]]
    /\ UNCHANGED terminate_calls

\* Phase 1: create_instance returns an id or raises.
CreateInstance(m) ==
    /\ ops[m].pc = "create"
    /\ \/ /\ ops' = [ops EXCEPT ![m] =
                    [Tick(LogTiming(@, <<"created", InstanceId(m, @.created + 1)>>)) EXCEPT
                        !.instance_id = InstanceId(m, ops[m].created + 1),
                        !.created = @ + 1,
                        !.instance_start_time = ops[m].clock,
                        !.pc = "wait_instance"]]
            /\ UNCHANGED terminate_calls
       \/ Finally(m, Raise(Tick(ops[m]), "create"))
    /\ UNCHANGED <<calls, parVars>>

\* Phase 2: wait_for_instance_ready returns the address or raises.
WaitForInstanceReady(m) ==
    /\ ops[m].pc = "wait_instance"
    /\ \/ /\ ops' = [ops EXCEPT ![m] =
                    [Tick(@) EXCEPT !.public_ip = PublicIp(ops[m].instance_id),
                                    !.pc = "wait_api"]]
          /\ UNCHANGED terminate_calls
       \/ Finally(m, Raise(Tick(ops[m]), "network"))
    /\ UNCHANGED <<calls, parVars>>

\* Phase 3: wait_for_api_ready returns True or False; False is raised. On
\* True the job loop is entered.
WaitForApiReady(m) ==
    /\ ops[m].pc = "wait_api"
    /\ \/ LoopNext(m, [Tick(ops[m]) EXCEPT !.i = 1, !.pc = "loop"])
       \/ Finally(m, Raise(Tick(ops[m]), "health"))
    /\ UNCHANGED <<calls, parVars>>

\* Faulty variant of ProcessScene: the scenes are taken from the end of the list.
ProcessSceneLastFirst(m) ==
    LET op == ops[m]
        n  == op.scenes[Len(op.scenes) + 1 - op.i]
        sent == Tick(LogTiming(op, <<"scene", n>>))
        failed(r) == [sent EXCEPT !.batch_results = Append(@, r), !.i = @ + 1]
    IN  /\ op.pc = "loop"
        /\ op.i <= Len(op.scenes)
        /\ \/ /\ ops' = [ops EXCEPT ![m] =
                        [sent EXCEPT !.batch_results = Append(@, SceneSuccess(n)),
                                     !.success_count = @ + 1,
                                     !.total_processing_time = @ + 1,
                                     !.total_file_size = @ + 1,
                                     !.pc = "download"]]
              /\ UNCHANGED terminate_calls
           \/ LoopNext(m, failed(SceneFailure(n, "HTTP", 1)))
           \/ LoopNext(m, failed(SceneFailure(n, "transport", 0)))
           \/ LoopNext(m, failed(SceneNone(n)))
           \/ Finally(m, Raise(sent, "jobs"))
        /\ UNCHANGED <<calls, parVars>>

\* Faulty variant of ProcessScene: after a non-200 response the same scene is
\* sent again.
ProcessSceneRetries(m) ==
    LET op == ops[m]
        n  == op.scenes[op.i]
        sent == Tick(LogTiming(op, <<"scene", n>>))
        failed(r) == [sent EXCEPT !.batch_results = Append(@, r), !.i = @ + 1]
    IN  /\ op.pc = "loop"
        /\ op.i <= Len(op.scenes)
        /\ \/ /\ ops' = [ops EXCEPT ![m] =
                        [sent EXCEPT !.batch_results = Append(@, SceneSuccess(n)),
                                     !.success_count = @ + 1,
                                     !.total_processing_time = @ + 1,
                                     !.total_file_size = @ + 1,
                                     !.pc = "download"]]
              /\ UNCHANGED terminate_calls
           \/ LoopNext(m, [sent EXCEPT !.batch_results =
                                        Append(@, SceneFailure(n, "HTTP", 1))])
           \/ LoopNext(m, failed(SceneFailure(n, "transport", 0)))
           \/ LoopNext(m, failed(SceneNone(n)))
           \/ Finally(m, Raise(sent, "jobs"))
        /\ UNCHANGED <<calls, parVars>>

\* Phase 4, one iteration: process_single_scene on scene i and the recording
\* of its result; a successful job's artifact is downloaded next, a raise
\* leaves the loop for the except and finally clauses.
ProcessScene(m) ==
    LET op == ops[m]
        n  == op.scenes[op.i]
        sent == Tick(LogTiming(op, <<"scene", n>>))
        failed(r) == [sent EXCEPT !.batch_results = Append(@, r), !.i = @ + 1]
    IN  /\ op.pc = "loop"
        /\ op.i <= Len(op.scenes)
        /\ \/ /\ ops' = [ops EXCEPT ![m] =
                        [sent EXCEPT !.batch_results = Append(@, SceneSuccess(n)),
                                     !.success_count = @ + 1,
                                     !.total_processing_time = @ + 1,
                                     !.total_file_size = @ + 1,
                                     !.pc = "download"]]
              /\ UNCHANGED terminate_calls
           \/ LoopNext(m, failed(SceneFailure(n, "HTTP", 1)))
           \/ LoopNext(m, failed(SceneFailure(n, "transport", 0)))
           \/ LoopNext(m, failed(SceneNone(n)))
           \/ Finally(m, Raise(sent, "jobs"))
        /\ UNCHANGED <<calls, parVars>>

\* Faulty variant of ImmediateDownload: the artifact is left for later and the loop
\* goes on.
ImmediateDownloadDeferred(m) ==
    LET op == ops[m]
    IN  /\ op.pc = "download"
        /\ LoopNext(m, [Tick(op) EXCEPT !.i = @ + 1, !.pc = "loop"])
        /\ UNCHANGED <<calls, parVars>>

\* Faulty variant of ImmediateDownload: a failed fetch is taken for a failed
\* job, so the record is flipped to a failure and the totals are taken back.
ImmediateDownloadFailureFailsJob(m) ==
    LET op == ops[m]
        n  == op.scenes[op.i]
        tried == Tick(LogTiming(op, <<"download", n>>))
        last == op.batch_results[Len(op.batch_results)]
    IN  /\ op.pc = "download"
        /\ \/ LoopNext(m, [tried EXCEPT
                              !.downloaded_files = Append(@, n),
                              !.batch_results[Len(op.batch_results)] =
                                  Update(@, [local_path |-> n]),
                              !.i = @ + 1, !.pc = "loop"])
           \/ LoopNext(m, [LogTiming(tried, <<"download_failed", n>>)
                              EXCEPT !.batch_results[Len(op.batch_results)] =
                                         Update(@, [success |-> FALSE]),
                                     !.success_count = @ - 1,
                                     !.total_file_size = @ - last.file_size,
                                     !.i = @ + 1, !.pc = "loop"])
        /\ UNCHANGED <<calls, parVars>>

\* The immediate download of the artifact of the job just recorded, and the
\* end of the iteration.
ImmediateDownload(m) ==
    LET op == ops[m]
        n  == op.scenes[op.i]
        tried == Tick(LogTiming(op, <<"download", n>>))
    IN  /\ op.pc = "download"
        /\ \/ LoopNext(m, [tried EXCEPT
                              !.downloaded_files = Append(@, n),
                              !.batch_results[Len(op.batch_results)] =
                                  Update(@, [local_path |-> n]),
                              !.i = @ + 1, !.pc = "loop"])
           \/ LoopNext(m, [LogTiming(tried, <<"download_failed", n>>)
                              EXCEPT !.i = @ + 1, !.pc = "loop"])
        /\ UNCHANGED <<calls, parVars>>

\* download_batch_results, one iteration over a successful result: the k-th
\* successful record's artifact is fetched, or the fetch fails and is logged.
DownloadBatchResultsStep(m) ==
    LET op == ops[m]
        todo == Successful(op.batch_results)
        n == todo[op.k].scene_name
        tried == Tick(LogTiming(op, <<"final_download", n>>))
    IN  /\ op.pc = "download_pass"
        /\ op.k <= Len(todo)
        /\ \/ ops' = [ops EXCEPT ![m] =
                        [tried EXCEPT !.final_files = Append(@, n),
                                      !.downloaded_count = @ + 1, !.k = @ + 1]]
           \/ ops' = [ops EXCEPT ![m] =
                        [LogTiming(tried, <<"final_download_failed", n>>)
                            EXCEPT !.k = @ + 1]]
        /\ UNCHANGED <<terminate_calls, calls, parVars>>

\* download_batch_results's return value
DownloadResult(op) ==
    [downloaded_files |-> op.final_files,
     download_count |-> op.downloaded_count,
     total_available |-> Len(Successful(op.batch_results)),
     final_cost_usd |-> IF op.instance_id # None /\ op.instance_start_time # None
                        THEN CalculateCost(op, op.clock - op.instance_start_time)
                        ELSE 0]

\* Faulty variant of DownloadBatchResultsTerminates: terminate only when a file was
\* fetched.
DownloadBatchResultsTerminatesIfFetched(op) ==
    op.instance_id # None /\ op.downloaded_count > 0

\* download_batch_results after its loop, with terminate_after = True: the
\* final cost is computed and the instance terminated whatever the number of
\* files fetched.
DownloadBatchResultsTerminates(op) == op.instance_id # None

\* The finally clause's update of the result with the download pass's outcome.
FinallyDownloadedResult(op) ==
    Update(op.result_dict,
           [downloaded_files |-> DownloadResult(op).downloaded_files,
            download_count |-> DownloadResult(op).download_count,
            final_cost_usd |-> DownloadResult(op).final_cost_usd,
            output_directory |-> "output_dir"])

\* The end of download_batch_results when execute_batch's finally clause
\* called it, and the rest of that clause.
FinallyDownloaded(m) ==
    LET op == ops[m]
    IN  /\ op.pc = "download_pass"
        /\ op.k > Len(Successful(op.batch_results))
        /\ op.download_for = "finally"
        /\ ops' = [ops EXCEPT ![m] =
                     [(IF DownloadBatchResultsTerminates(op)
                       THEN TerminateLogged(op, op.instance_id) ELSE op) EXCEPT
                         !.result_dict = FinallyDownloadedResult(op),
                         !.pc = "returned"]]
        /\ terminate_calls' = IF DownloadBatchResultsTerminates(op)
                              THEN TerminateRequested(terminate_calls, op.instance_id)
                              ELSE terminate_calls
        /\ UNCHANGED <<calls, parVars>>

\* ------------------------------------------- one manager, called directly
ScenesOf(n) == [j \in 1..n |-> j]

\* A caller invokes execute_batch on the manager (again, once the previous
\* call has returned).
CallExecuteBatch ==
    /\ calls < MaxCalls
    /\ \E n \in 0..MaxBatchScenes, auto_terminate \in BOOLEAN :
          ExecuteBatchStart(1, ScenesOf(n), auto_terminate)
    /\ calls' = calls + 1
    /\ UNCHANGED parVars

Init ==
    /\ ops = (1 :> NewOperation)
    /\ terminate_calls = << >>
    /\ calls = 0
    /\ par = [pc |-> "none"]
    /\ threads = << >>
    /\ results_lock = 0
    /\ instance_results = <<>>
    /\ active_instances = <<>>

Next ==
    \/ CallExecuteBatch
    \/ CreateInstance(1)
    \/ WaitForInstanceReady(1)
    \/ WaitForApiReady(1)
    \/ ProcessScene(1)
    \/ ImmediateDownload(1)
    \/ DownloadBatchResultsStep(1)
    \/ FinallyDownloaded(1)

Spec == Init /\ [][Next]_vars


\* ------------------------------------ calculate_optimal_batch_distribution
\* Faulty variant of EvenDistribution: the remainder is dropped.
EvenDistributionNoRemainder(total_scenes, num_instances) ==
    [i \in 1..num_instances |-> total_scenes \div num_instances]

\* Faulty variant of EvenDistribution: the whole remainder goes to the first
\* instance.
EvenDistributionRemainderToFirst(total_scenes, num_instances) ==
    [i \in 1..num_instances |->
        (total_scenes \div num_instances)
          + (IF i = 1 THEN total_scenes % num_instances ELSE 0)]

\* base_scenes + (1 if i < remainder else 0) for i in range(num_instances)
EvenDistribution(total_scenes, num_instances) ==
    [i \in 1..num_instances |->
        (total_scenes \div num_instances)
          + (IF i - 1 < total_scenes % num_instances THEN 1 ELSE 0)]

\* Faulty variant of ReduceInstances: the base batch size must exceed the
\* minimum.
RECURSIVE ReduceInstancesStrict(_, _, _)
ReduceInstancesStrict(total_scenes, num_instances, min_scenes_per_batch) ==
    IF num_instances <= 1 THEN 0
    ELSE IF total_scenes \div num_instances > min_scenes_per_batch
         THEN num_instances
         ELSE ReduceInstancesStrict(total_scenes, num_instances - 1,
                                    min_scenes_per_batch)

\* The while loop of case 2: the first count from num_instances down to 2 whose
\* base batch size reaches the minimum, or 0 when the loop ends without one.
RECURSIVE ReduceInstances(_, _, _)
ReduceInstances(total_scenes, num_instances, min_scenes_per_batch) ==
    IF num_instances <= 1 THEN 0
    ELSE IF total_scenes \div num_instances >= min_scenes_per_batch
         THEN num_instances
         ELSE ReduceInstances(total_scenes, num_instances - 1, min_scenes_per_batch)

\* abs(avg_scenes - scenes_per_batch) <= 2 with avg_scenes = total / n
CloseToPreferred(total_scenes, n, scenes_per_batch) ==
    /\ total_scenes - scenes_per_batch * n <= 2 * n
    /\ scenes_per_batch * n - total_scenes <= 2 * n

CalculateOptimalBatchDistribution(total_scenes, scenes_per_batch, max_parallel_instances, min_scenes_per_batch) ==
    IF total_scenes >= scenes_per_batch * max_parallel_instances
    THEN [num_instances |-> max_parallel_instances,
          batch_distribution |-> EvenDistribution(total_scenes, max_parallel_instances),
          total_batches |-> max_parallel_instances,
          strategy |-> "Large batch",
          warnings |-> <<"Overriding scenes_per_batch">>]
    ELSE LET n == ReduceInstances(total_scenes, max_parallel_instances,
                                  min_scenes_per_batch)
         IN  IF n > 0
             THEN [num_instances |-> n,
                   batch_distribution |-> EvenDistribution(total_scenes, n),
                   total_batches |-> n,
                   strategy |-> IF CloseToPreferred(total_scenes, n, scenes_per_batch)
                                THEN "Optimal" ELSE "Adjusted",
                   warnings |-> IF ~CloseToPreferred(total_scenes, n, scenes_per_batch)
                                   /\ total_scenes > scenes_per_batch * n
                                THEN <<"Using fewer instances">> ELSE <<>>]
             ELSE [num_instances |-> 1,
                   batch_distribution |-> <<total_scenes>>,
                   total_batches |-> 1,
                   strategy |-> "Single instance",
                   warnings |-> <<"Using single instance">>]

\* --------------------------------------------- execute_parallel_batches
\* The slicing loop: batch b takes the next batch_distribution[b] scenes.
StartIndex(batch_distribution, b) ==
    SumSeq(SubSeq(batch_distribution, 1, b - 1))

\* Faulty variant of SceneBatches: end_index is one past the batch's last scene.
SceneBatchesEndPastLast(scenes, batch_distribution) ==
    [b \in 1..Len(batch_distribution) |->
        LET current_index == StartIndex(batch_distribution, b)
            batch == SubSeq(scenes, current_index + 1,
                            current_index + batch_distribution[b])
        IN  [batch_id |-> b, scenes |-> batch, start_index |-> current_index,
             end_index |-> current_index + Len(batch)]]

SceneBatches(scenes, batch_distribution) ==
    [b \in 1..Len(batch_distribution) |->
        LET current_index == StartIndex(batch_distribution, b)
            batch == SubSeq(scenes, current_index + 1,
                            current_index + batch_distribution[b])
        IN  [batch_id |-> b, scenes |-> batch, start_index |-> current_index,
             end_index |-> current_index + Len(batch) - 1]]

\* Faulty variant of StableSort: the list is left in the order it has.
StableSortKeepsOrder(s, keys) ==
    s

\* list.sort(key = ...): stable, ascending; keys[i] is the key of s[i]
StableSort(s, keys) ==
    LET n == Len(s)
        rank == [i \in 1..n |->
                    Cardinality({j \in 1..n :
                        \/ keys[j] < keys[i]
                        \/ keys[j] = keys[i] /\ j < i}) + 1]
    IN  [p \in 1..n |-> s[CHOOSE i \in 1..n : rank[i] = p]]

RECURSIVE Flatten(_)
Flatten(ss) == IF ss = <<>> THEN <<>> ELSE Head(ss) \o Flatten(Tail(ss))

\* What one partition record adds to the aggregate's successful_scenes.
SuccessfulScenesOf(r) ==
    IF Get(r, "success", FALSE) THEN Get(r, "successful_scenes", 0) ELSE 0

\* Faulty variant of FailedScenesOf: only successful partitions count their failures.
FailedScenesOfSuccessful(r) ==
    IF Get(r, "success", FALSE) THEN Get(r, "failed_scenes", 0) ELSE 0

\* What one partition record adds to the aggregate's failed_scenes, in either
\* branch of the aggregation loop.
FailedScenesOf(r) == Get(r, "failed_scenes", 0)

\* What one partition record adds to the aggregate's total cost.
CostOf(r) ==
    IF Get(r, "success", FALSE)
    THEN Get(r, "final_cost_usd", Get(r, "cost_usd", 0)) ELSE 0

\* The aggregation: instance_results sorted by batch id, the sums of the loop,
\* the scene results of the successful partitions sorted by scene name.
\* (parallel_time and the figures derived from it are wall-clock values and
\* are left out.)
Aggregate(results, total_scenes, num_instances, scenes_per_batch) ==
    LET sorted == StableSort(results,
                             [p \in 1..Len(results) |-> Get(results[p], "batch_id", 0)])
        n == Len(sorted)
        successful_scenes == SumSeq([p \in 1..n |-> SuccessfulScenesOf(sorted[p])])
        failed_scenes == SumSeq([p \in 1..n |-> FailedScenesOf(sorted[p])])
        total_cost == SumSeq([p \in 1..n |-> CostOf(sorted[p])])
        total_processing_time ==
            SumSeq([p \in 1..n |-> IF Get(sorted[p], "success", FALSE)
                                   THEN Get(sorted[p], "total_time", 0) ELSE 0])
        all_scene_results ==
            Flatten([p \in 1..n |-> IF Get(sorted[p], "success", FALSE)
                                    THEN Get(sorted[p], "batch_results", <<>>)
                                    ELSE <<>>])
        all_downloaded_files ==
            Flatten([p \in 1..n |-> IF Get(sorted[p], "success", FALSE)
                                    THEN Get(sorted[p], "downloaded_files", <<>>)
                                    ELSE <<>>])
    IN  [success |-> successful_scenes > 0,
         total_scenes |-> total_scenes,
         successful_scenes |-> successful_scenes,
         failed_scenes |-> failed_scenes,
         total_cost_usd |-> total_cost,
         total_time |-> total_processing_time,
         instances_used |-> num_instances,
         scenes_per_batch |-> scenes_per_batch,
         batch_results |->
            StableSort(all_scene_results,
                       [p \in 1..Len(all_scene_results) |->
                           Get(all_scene_results[p], "scene_name", 0)]),
         downloaded_files |-> all_downloaded_files,
         instance_results |-> sorted]

\* ------------------------------------------------------- process_batch
NewThread == [pc |-> "unsubmitted", result |-> << >>, fault |-> "none"]

BatchInfo(b) == par.scene_batches[b]

SetThread(b, pc, result, fault) ==
    [threads EXCEPT ![b] = [pc |-> pc, result |-> result, fault |-> fault]]

\* except Exception in process_batch: the record of a partition that raised
ErrorResult(batch_info, error) ==
    [batch_id |-> batch_info.batch_id, success |-> FALSE, error |-> error,
     start_index |-> batch_info.start_index, end_index |-> batch_info.end_index,
     cost_usd |-> 0, successful_scenes |-> 0,
     failed_scenes |-> Len(batch_info.scenes), batch_results |-> <<>>]

\* result["batch_id"] = ... and the other metadata (instance_type is left out)
WithBatchMetadata(result, batch_info) ==
    Update(result, [batch_id |-> batch_info.batch_id,
                    start_index |-> batch_info.start_index,
                    end_index |-> batch_info.end_index])

\* The manager is constructed and execute_batch called on it with
\* auto_terminate = False.
ProcessBatchStart(b) ==
    /\ threads[b].pc = "start"
    /\ ops' = (b :> [NewOperation EXCEPT
                        !.pc = "create", !.scenes = BatchInfo(b).scenes]) @@ ops
    /\ threads' = SetThread(b, "execute_batch", << >>, "none")
    /\ UNCHANGED <<terminate_calls, calls, par, results_lock, instance_results,
                   active_instances>>

\* Faulty variant of ProcessBatchConstructorRaises: the exception is not caught and the
\* thread ends without a record.
ProcessBatchConstructorRaisesUncaught(b) ==
    /\ threads[b].pc = "start"
    /\ threads' = SetThread(b, "done", << >>, "construct")
    /\ UNCHANGED <<ops, terminate_calls, calls, par, results_lock,
                   instance_results, active_instances>>

\* The constructor raises: the except clause builds the error record.
ProcessBatchConstructorRaises(b) ==
    /\ threads[b].pc = "start"
    /\ threads' = SetThread(b, "lock_append",
                            ErrorResult(BatchInfo(b), "construct"), "construct")
    /\ UNCHANGED <<ops, terminate_calls, calls, par, results_lock,
                   instance_results, active_instances>>

\* execute_batch has returned to process_batch.
Returned(b) == threads[b].pc = "execute_batch" /\ ops[b].pc = "returned"

\* if result.get("instance_id")
HasInstance(result) == Get(result, "instance_id", None) # None

\* The result process_batch works on: execute_batch's return value, with what
\* process_batch has added to it since.
ResultOf(b) == IF Returned(b) THEN ops[b].result_dict ELSE threads[b].result

\* The partition is at a with results_lock statement: before registering the
\* instance execute_batch returned, or before appending its record.
WaitsForLock(b) ==
    \/ Returned(b) /\ HasInstance(ops[b].result_dict)
    \/ threads[b].pc = "lock_append"

\* The partition is at the post-batch handling: after the registration or, when
\* execute_batch returned no instance id, right after the return.
AtPost(b) ==
    \/ threads[b].pc = "post"
    \/ Returned(b) /\ ~HasInstance(ops[b].result_dict)

\* Faulty variant of AcquireLock: the block is entered whether or not the lock
\* is free.
AcquireLockNoWait(b) ==
    /\ WaitsForLock(b)
    /\ results_lock' = b
    /\ threads' = IF Returned(b)
                  THEN SetThread(b, "registering", ops[b].result_dict, ops[b].fault)
                  ELSE [threads EXCEPT ![b].pc = "appending"]
    /\ UNCHANGED <<ops, terminate_calls, calls, par, instance_results,
                   active_instances>>

\* with results_lock: entering the block
AcquireLock(b) ==
    /\ WaitsForLock(b)
    /\ results_lock = 0
    /\ results_lock' = b
    /\ threads' = IF Returned(b)
                  THEN SetThread(b, "registering", ops[b].result_dict, ops[b].fault)
                  ELSE [threads EXCEPT ![b].pc = "appending"]
    /\ UNCHANGED <<ops, terminate_calls, calls, par, instance_results,
                   active_instances>>

\* Faulty variant of RegisterInstance: the lock is not released after the append.
RegisterInstanceKeepsLock(b) ==
    /\ threads[b].pc = "registering"
    /\ active_instances' = Append(active_instances,
                                  [batch_id |-> b,
                                   instance_id |-> threads[b].result.instance_id,
                                   operation |-> b])
    /\ threads' = [threads EXCEPT ![b].pc = "post"]
    /\ UNCHANGED <<ops, terminate_calls, calls, par, instance_results, results_lock>>

\* active_instances.append(...) and leaving the with block
RegisterInstance(b) ==
    /\ threads[b].pc = "registering"
    /\ active_instances' = Append(active_instances,
                                  [batch_id |-> b,
                                   instance_id |-> threads[b].result.instance_id,
                                   operation |-> b])
    /\ results_lock' = 0
    /\ threads' = [threads EXCEPT ![b].pc = "post"]
    /\ UNCHANGED <<ops, terminate_calls, calls, par, instance_results>>

\* Which way the post-batch handling goes:
\*   "terminate"  files were downloaded by execute_batch: terminate, final cost
\*   "download"   none were: download_batch_results, which terminates
\*   "failed"     the batch failed or has no results: terminate if there is
\*                an instance
PostBranch(result) ==
    IF Get(result, "success", FALSE) /\ Get(result, "batch_results", <<>>) # <<>>
    THEN (IF Get(result, "downloaded_files", <<>>) # <<>>
             /\ Get(result, "download_dir", "") # ""
          THEN "terminate" ELSE "download")
    ELSE "failed"

\* Whether the post-batch handling terminates the instance itself.
PostTerminates(result) ==
    /\ PostBranch(result) \in {"terminate", "failed"}
    /\ Get(result, "instance_id", None) # None

\* The post-batch handling of process_batch when nothing in it raises.
ProcessBatchPost(b) ==
    LET result == WithBatchMetadata(ResultOf(b), BatchInfo(b))
        branch == PostBranch(result)
        op == ops[b]
    IN  /\ AtPost(b)
        /\ terminate_calls' = IF PostTerminates(result)
                              THEN TerminateRequested(terminate_calls, result.instance_id)
                              ELSE terminate_calls
        /\ ops' = [ops EXCEPT ![b] =
                     IF branch = "download"
                     THEN [op EXCEPT !.pc = "download_pass", !.k = 1,
                                     !.download_for = "process_batch"]
                     ELSE IF PostTerminates(result)
                          THEN Tick(TerminateLogged(op, result.instance_id))
                          ELSE op]
        /\ threads' = SetThread(b,
                         IF branch = "download" THEN "fallback_download"
                                                ELSE "lock_append",
                         IF branch = "terminate"
                         THEN Update(result,
                                [final_cost_usd |->
                                    CalculateCost(op, op.clock + 1 - op.instance_start_time)])
                         ELSE result,
                         op.fault)
        /\ UNCHANGED <<calls, par, results_lock, instance_results, active_instances>>

\* The creation of the batch directory raises (before anything was
\* terminated): the except clause builds the error record.
ProcessBatchPostRaises(b) ==
    LET result == WithBatchMetadata(ResultOf(b), BatchInfo(b))
    IN  /\ AtPost(b)
        /\ PostBranch(result) \in {"terminate", "download"}
        /\ threads' = SetThread(b, "lock_append",
                                ErrorResult(BatchInfo(b), "post"), "post")
        /\ UNCHANGED <<ops, terminate_calls, calls, par, results_lock,
                       instance_results, active_instances>>

\* The end of download_batch_results when process_batch called it (terminate_after
\* defaults to True), and the update of the result with its outcome.
ProcessBatchDownloaded(b) ==
    LET op == ops[b]
    IN  /\ threads[b].pc = "fallback_download"
        /\ op.pc = "download_pass"
        /\ op.k > Len(Successful(op.batch_results))
        /\ op.download_for = "process_batch"
        /\ ops' = [ops EXCEPT ![b] =
                     [(IF DownloadBatchResultsTerminates(op)
                       THEN TerminateLogged(op, op.instance_id) ELSE op) EXCEPT
                         !.pc = "returned"]]
        /\ terminate_calls' = IF DownloadBatchResultsTerminates(op)
                              THEN TerminateRequested(terminate_calls, op.instance_id)
                              ELSE terminate_calls
        /\ threads' = [threads EXCEPT
                         ![b].pc = "lock_append",
                         ![b].result =
                            Update(@, [downloaded_files |-> DownloadResult(op).downloaded_files,
                                       download_dir |-> "batch_dir",
                                       final_cost_usd |-> DownloadResult(op).final_cost_usd])]
        /\ UNCHANGED <<calls, par, results_lock, instance_results, active_instances>>

\* instance_results.append(...) under the lock, by the try block or by the
\* except clause, and the return of process_batch.
AppendResult(b) ==
    /\ threads[b].pc = "appending"
    /\ instance_results' = Append(instance_results, threads[b].result)
    /\ results_lock' = 0
    /\ threads' = [threads EXCEPT ![b].pc = "done"]
    /\ UNCHANGED <<ops, terminate_calls, calls, par, active_instances>>

\* ------------------------------------- execute_parallel_batches, the body
\* The state of a parallel run after the plan is made and the scenes sliced.
ParallelRun(total_scenes, scenes_per_batch, max_parallel_instances, min_scenes_per_batch) ==
    LET plan == CalculateOptimalBatchDistribution(total_scenes, scenes_per_batch,
                    max_parallel_instances, min_scenes_per_batch)
    IN  [pc |-> "submit",
         total_scenes |-> total_scenes,
         scenes_per_batch |-> scenes_per_batch,
         max_parallel_instances |-> max_parallel_instances,
         min_scenes_per_batch |-> min_scenes_per_batch,
         num_instances |-> plan.num_instances,
         batch_distribution |-> plan.batch_distribution,
         scene_batches |-> SceneBatches(ScenesOf(total_scenes), plan.batch_distribution),
         submitted |-> 0,
         cleanup_performed |-> FALSE,
         error |-> FALSE,
         swept |-> 0,
         final_result |-> << >>]

Batches == 1..Len(par.scene_batches)

\* Faulty variant of AllDone: the first partition to finish ends the wait.
AnyDone(bs) == \E b \in bs : threads[b].pc = "done"

\* Every future of the given batches has completed.
AllDone(bs) == \A b \in bs : threads[b].pc = "done"

\* executor.submit(process_batch, batch) for the next batch: its thread starts.
Submit ==
    /\ par.pc = "submit"
    /\ par.submitted < Len(par.scene_batches)
    /\ par' = [par EXCEPT !.submitted = @ + 1]
    /\ threads' = [threads EXCEPT ![par.submitted + 1].pc = "start"]
    /\ UNCHANGED <<ops, terminate_calls, calls, results_lock, instance_results,
                   active_instances>>

\* The fan-out raises inside the with block (a submit fails): the executor's
\* exit still joins the threads already started.
FanOutRaises ==
    /\ par.pc = "submit"
    /\ par.submitted < Len(par.scene_batches)
    /\ par' = [par EXCEPT !.pc = "shutdown", !.error = TRUE]
    /\ UNCHANGED <<ops, terminate_calls, calls, threads, results_lock,
                   instance_results, active_instances>>

\* concurrent.futures.wait and the exit of the with block: all batches done.
WaitAll ==
    /\ par.pc = "submit"
    /\ par.submitted = Len(par.scene_batches)
    /\ AllDone(Batches)
    /\ par' = [par EXCEPT !.pc = "aggregate"]
    /\ UNCHANGED <<ops, terminate_calls, calls, threads, results_lock,
                   instance_results, active_instances>>

\* The exit of the with block on an exception: shutdown(wait=True).
Shutdown ==
    /\ par.pc = "shutdown"
    /\ AllDone(1..par.submitted)
    /\ par' = [par EXCEPT !.pc = "finally"]
    /\ UNCHANGED <<ops, terminate_calls, calls, threads, results_lock,
                   instance_results, active_instances>>

\* The aggregation, up to cleanup_performed = True.
AggregateResults ==
    /\ par.pc = "aggregate"
    /\ LET final_result == Aggregate(instance_results, par.total_scenes,
                                     par.num_instances, par.scenes_per_batch)
       IN  /\ instance_results' = final_result.instance_results
           /\ par' = [par EXCEPT !.final_result = final_result,
                                 !.cleanup_performed = TRUE, !.pc = "finally"]
    /\ UNCHANGED <<ops, terminate_calls, calls, threads, results_lock,
                   active_instances>>

\* The aggregation raises before it completes.
AggregationRaises ==
    /\ par.pc = "aggregate"
    /\ par' = [par EXCEPT !.pc = "finally", !.error = TRUE]
    /\ UNCHANGED <<ops, terminate_calls, calls, threads, results_lock,
                   instance_results, active_instances>>

\* Faulty variant of NeedsSweep: the sweep runs only after a completed aggregation.
NeedsSweepAfterCleanup(cleanup_performed, registry) ==
    cleanup_performed /\ registry # <<>>

\* if not cleanup_performed and active_instances
NeedsSweep(cleanup_performed, registry) ==
    ~cleanup_performed /\ registry # <<>>

\* The finally clause: the emergency sweep is entered, or the call ends.
ParallelFinally ==
    /\ par.pc = "finally"
    /\ par' = [par EXCEPT !.pc =
                 IF NeedsSweep(par.cleanup_performed, active_instances) THEN "sweep"
                 ELSE IF par.error THEN "raised" ELSE "returned"]
    /\ UNCHANGED <<ops, terminate_calls, calls, threads, results_lock,
                   instance_results, active_instances>>

\* One iteration of the emergency sweep: operation.terminate_instance on the
\* next registry entry.
Sweep ==
    /\ par.pc = "sweep"
    /\ par.swept < Len(active_instances)
    /\ LET info == active_instances[par.swept + 1]
       IN  /\ terminate_calls' = TerminateRequested(terminate_calls, info.instance_id)
           /\ ops' = [ops EXCEPT ![info.operation] =
                        TerminateLogged(@, info.instance_id)]
    /\ par' = [par EXCEPT !.swept = @ + 1]
    /\ UNCHANGED <<calls, threads, results_lock, instance_results, active_instances>>

\* The sweep is over: the exception propagates (or, had there been none, the
\* call returns).
SweepDone ==
    /\ par.pc = "sweep"
    /\ par.swept = Len(active_instances)
    /\ par' = [par EXCEPT !.pc = IF par.error THEN "raised" ELSE "returned"]
    /\ UNCHANGED <<ops, terminate_calls, calls, threads, results_lock,
                   instance_results, active_instances>>

\* A parallel run of up to MaxScenes scenes on up to MaxWorkers instances, with
\* scenes_per_batch = min_scenes_per_batch = 1 so that the plan uses as many
\* instances as it may.
InitParallel ==
    /\ \E total_scenes \in 0..MaxScenes, max_parallel_instances \in 1..MaxWorkers :
          par = ParallelRun(total_scenes, 1, max_parallel_instances, 1)
    /\ threads = [b \in 1..Len(par.scene_batches) |-> NewThread]
    /\ ops = << >>
    /\ terminate_calls = << >>
    /\ calls = 0
    /\ results_lock = 0
    /\ instance_results = <<>>
    /\ active_instances = <<>>

\* A parallel run as in InitParallel, with min_scenes_per_batch 0 or 1.
InitParallelAnyMin ==
    /\ \E total_scenes \in 0..MaxScenes, max_parallel_instances \in 1..MaxWorkers,
          min_scenes_per_batch \in 0..1 :
          par = ParallelRun(total_scenes, 1, max_parallel_instances, min_scenes_per_batch)
    /\ threads = [b \in 1..Len(par.scene_batches) |-> NewThread]
    /\ ops = << >>
    /\ terminate_calls = << >>
    /\ calls = 0
    /\ results_lock = 0
    /\ instance_results = <<>>
    /\ active_instances = <<>>

NextParallel ==
    \/ Submit
    \/ FanOutRaises
    \/ WaitAll
    \/ Shutdown
    \/ AggregateResults
    \/ AggregationRaises
    \/ ParallelFinally
    \/ Sweep
    \/ SweepDone
    \/ \E b \in DOMAIN threads : ProcessBatchStart(b)
    \/ \E b \in DOMAIN threads : ProcessBatchConstructorRaises(b)
    \/ \E b \in DOMAIN threads : AcquireLock(b)
    \/ \E b \in DOMAIN threads : RegisterInstance(b)
    \/ \E b \in DOMAIN threads : ProcessBatchPost(b)
    \/ \E b \in DOMAIN threads : ProcessBatchPostRaises(b)
    \/ \E b \in DOMAIN threads : ProcessBatchDownloaded(b)
    \/ \E b \in DOMAIN threads : AppendResult(b)
    \/ \E b \in DOMAIN ops : CreateInstance(b)
    \/ \E b \in DOMAIN ops : WaitForInstanceReady(b)
    \/ \E b \in DOMAIN ops : WaitForApiReady(b)
    \/ \E b \in DOMAIN ops : ProcessScene(b)
    \/ \E b \in DOMAIN ops : ImmediateDownload(b)
    \/ \E b \in DOMAIN ops : DownloadBatchResultsStep(b)

SpecParallel == InitParallel /\ [][NextParallel]_vars

\* The orchestrator and the pool's threads are scheduled by the operating
\* system and every external call returns or fails, so a run in which some step
\* can be taken does not stop.
SpecParallelFair == InitParallel /\ [][NextParallel]_vars /\ WF_vars(NextParallel)

SpecParallelAnyMin == InitParallelAnyMin /\ [][NextParallel]_vars

\* ------------------------------------------------- the aggregation by itself
\* How a partition's run ended, with its counts of succeeded (s) and other (f)
\* jobs:
\*   "completed"  execute_batch ran the job loop to its end
\*   "error"      process_batch's except clause made the record
\*   "failed"     execute_batch's except clause made the record, after s jobs
\*                had succeeded
PartitionOutcomes ==
    {[kind |-> "completed", s |-> 5, f |-> 0],
     [kind |-> "completed", s |-> 0, f |-> 10],
     [kind |-> "completed", s |-> 3, f |-> 2],
     [kind |-> "completed", s |-> 0, f |-> 0],
     [kind |-> "error", s |-> 0, f |-> 10],
     [kind |-> "error", s |-> 0, f |-> 2],
     [kind |-> "failed", s |-> 0, f |-> 2],
     [kind |-> "failed", s |-> 3, f |-> 2]}

\* The manager of a partition after s jobs succeeded and, when the loop
\* completed, the others failed.
OperationAfter(batch_info, outcome) ==
    LET done == IF outcome.kind = "completed" THEN Len(batch_info.scenes)
                                              ELSE outcome.s
    IN  [NewOperation EXCEPT
            !.scenes = batch_info.scenes,
            !.instance_id = InstanceId(batch_info.batch_id, 1),
            !.public_ip = PublicIp(InstanceId(batch_info.batch_id, 1)),
            !.success_count = outcome.s,
            !.batch_results =
                [j \in 1..done |-> IF j <= outcome.s
                                   THEN SceneSuccess(batch_info.scenes[j])
                                   ELSE SceneFailure(batch_info.scenes[j], "HTTP", 1)]]

\* The record process_batch appends for a partition with the given outcome.
PartitionRecord(batch_info, outcome) ==
    CASE outcome.kind = "completed" ->
            WithBatchMetadata(SuccessResult(OperationAfter(batch_info, outcome)),
                              batch_info)
      [] outcome.kind = "failed" ->
            WithBatchMetadata(FailureResult(OperationAfter(batch_info, outcome),
                                            "jobs"), batch_info)
      [] OTHER -> ErrorResult(batch_info, "post")

\* A scene list whose names run against the list order.
ScenesDescending(n) == [j \in 1..n |-> n + 1 - j]

\* All partitions have appended their records, in batch order or in the
\* reverse order, and the aggregation is about to start. The caller's scene
\* list is in the order of its names or in the opposite order.
InitAggregate ==
    /\ \E n \in 1..MaxPartitions :
       \E outcomes \in [1..n -> PartitionOutcomes], reversed \in BOOLEAN,
          descending \in BOOLEAN :
          LET sizes == [b \in 1..n |-> outcomes[b].s + outcomes[b].f]
              total == SumSeq(sizes)
              scenes == IF descending THEN ScenesDescending(total)
                                      ELSE ScenesOf(total)
              batches == SceneBatches(scenes, sizes)
              records == [b \in 1..n |-> PartitionRecord(batches[b], outcomes[b])]
          IN  /\ par = [pc |-> "aggregate",
                        total_scenes |-> total,
                        scenes_per_batch |-> 1,
                        max_parallel_instances |-> n,
                        min_scenes_per_batch |-> 1,
                        num_instances |-> n,
                        batch_distribution |-> sizes,
                        scene_batches |-> batches,
                        submitted |-> n,
                        cleanup_performed |-> FALSE,
                        error |-> FALSE,
                        swept |-> 0,
                        final_result |-> << >>]
              /\ instance_results = IF reversed
                                    THEN [p \in 1..n |-> records[n + 1 - p]]
                                    ELSE records
              /\ threads = [b \in 1..n |-> [NewThread EXCEPT !.pc = "done"]]
    /\ ops = << >>
    /\ terminate_calls = << >>
    /\ calls = 0
    /\ results_lock = 0
    /\ active_instances = <<>>

NextAggregate ==
    \/ AggregateResults
    \/ ParallelFinally

SpecAggregate == InitAggregate /\ [][NextAggregate]_vars

\* ------------------------------------------------------ the planner by itself
\* The totals of the documented examples.
ExampleTotals == {22, 40, 50, 101}

\* ------------------------------------- terminate_instance and the sweep
\* Faulty variant of TerminateInstance: a failure of the EC2 call propagates to
\* the caller.
TerminateInstancePropagates(op, id, accepted) ==
    [op |-> TerminateLogged(op, id),
     raised |-> ~accepted]

\* terminate_instance: the EC2 call is accepted, or it raises and the except
\* clause logs the failure; op is the manager afterwards, raised tells whether
\* an exception reaches the caller.
TerminateInstance(op, id, accepted) ==
    [op |-> IF accepted THEN TerminateLogged(op, id)
            ELSE LogTiming(TerminateLogged(op, id), <<"terminate_failed", id>>),
     raised |-> FALSE]

\* The finally clause of execute_parallel_batches is reached with one to
\* MaxPartitions instances in the registry, each already terminated by its
\* partition or not, after an orchestrator failure (cleanup_performed unset)
\* or after a completed aggregation.
InitSweep ==
    /\ \E n \in 1..MaxPartitions, error \in BOOLEAN :
       \E terminated \in SUBSET (1..n) :
          /\ par = [pc |-> "finally", error |-> error,
                    cleanup_performed |-> ~error, swept |-> 0,
                    terminate_raised |-> FALSE, direct_calls |-> <<>>]
          /\ ops = [b \in 1..n |->
                      [NewOperation EXCEPT !.pc = "returned", !.created = 1,
                                           !.instance_id = InstanceId(b, 1)]]
          /\ active_instances = [b \in 1..n |->
                                   [batch_id |-> b, instance_id |-> InstanceId(b, 1),
                                    operation |-> b]]
          /\ terminate_calls = [id \in {InstanceId(b, 1) : b \in terminated} |-> 1]
          /\ threads = [b \in 1..n |-> [NewThread EXCEPT !.pc = "done"]]
    /\ calls = 0
    /\ results_lock = 0
    /\ instance_results = <<>>

\* One iteration of the emergency sweep with an EC2 call that may fail: the
\* try block calls operation.terminate_instance; if that raises, the except
\* clause makes the direct EC2 call.
EmergencyCleanupStep ==
    /\ par.pc = "sweep"
    /\ par.swept < Len(active_instances)
    /\ \E accepted \in BOOLEAN :
          LET info == active_instances[par.swept + 1]
              t == TerminateInstance(ops[info.operation], info.instance_id, accepted)
          IN  /\ ops' = [ops EXCEPT ![info.operation] = t.op]
              /\ terminate_calls' =
                    IF accepted
                    THEN TerminateRequested(terminate_calls, info.instance_id)
                    ELSE terminate_calls
              /\ par' = [par EXCEPT
                           !.swept = @ + 1,
                           !.terminate_raised = t.raised,
                           !.direct_calls = IF t.raised
                                            THEN Append(@, info.instance_id)
                                            ELSE @]
    /\ UNCHANGED <<calls, threads, results_lock, instance_results, active_instances>>

NextSweep ==
    \/ ParallelFinally
    \/ EmergencyCleanupStep
    \/ SweepDone

SpecSweep == InitSweep /\ [][NextSweep]_vars

\* ------------------------------------------- create_instance, the retry loop
\* The instance types find_best_available_instance can select.
SelectedTypes == {"c5.2xlarge", "m5.xlarge", "g4dn.xlarge", "t3.xlarge", "t3.large", "m5.large"}

\* fallback_options of the retry loop, in list order
FallbackOptions == <<"t3.xlarge", "t3.large", "m5.large">>

\* The error substrings the except branch treats as quota or capacity errors.
QuotaErrors ==
    {"VcpuLimitExceeded", "InsufficientInstanceCapacity", "InstanceLimitExceeded", "Unsupported"}

\* The errors run_instances raises in the model: the quota class and one other.
RunInstancesErrors == QuotaErrors \cup {"UnauthorizedOperation"}

\* max_attempts of create_instance
max_attempts == 3

\* The largest hourly rate get_instance_pricing returns in the model.
MaxRate == 2

\* The values get_instance_pricing can return: any price the API reports, zero
\* included, or a table value.
PricingValues == 0..MaxRate

\* The number of calculate_cost calls of one run: processing cost, final cost.
MaxCostCalls == 2

\* Faulty variant of IsQuotaError: every error is taken for a capacity error.
IsQuotaErrorAlways(error) == error \in RunInstancesErrors

\* any(error_type in error_str for error_type in [...])
IsQuotaError(error) == error \in QuotaErrors

\* Faulty variant of UntriedFallbacks: the list of attempted types is not consulted.
UntriedFallbacksAll(attempted_instances) == FallbackOptions

\* The fallback types not in attempted_instances, in list order.
UntriedFallbacks(attempted_instances) ==
    SelectSeq(FallbackOptions,
              LAMBDA t : \A q \in DOMAIN attempted_instances : attempted_instances[q] # t)

\* calculate_cost: a falsy stored rate is looked up (price is what the lookup
\* returns), then the cost of the runtime at the stored rate is returned.
CalculateCostWithPricing(c, runtime_seconds, price) ==
    LET rate == IF c.instance_hourly_cost = 0 THEN price ELSE c.instance_hourly_cost
    IN  [c EXCEPT
            !.instance_hourly_cost = rate,
            !.pricing_lookups = IF c.instance_hourly_cost = 0 THEN @ + 1 ELSE @,
            !.costs = Append(@, [hourly_rate_usd |-> rate,
                                 runtime_seconds |-> runtime_seconds,
                                 total_cost_usd |-> runtime_seconds * rate])]

\* A manager whose instance type has been selected, before the pricing lookup
\* of create_instance. requested lists the InstanceType of every run_instances
\* call, pricing_lookups counts the calls of get_instance_pricing.
InitCreate ==
    /\ \E t \in SelectedTypes :
          par = [pc |-> "pricing", instance_type |-> t, instance_hourly_cost |-> None,
                 attempt |-> 0, attempted_instances |-> <<>>, requested |-> <<>>,
                 pricing_lookups |-> 0, error |-> "none", instance_id |-> None,
                 rate_at_creation |-> None, lookups_at_creation |-> 0,
                 clock |-> 0, costs |-> <<>>]
    /\ ops = <<>>
    /\ terminate_calls = <<>>
    /\ calls = 0
    /\ threads = <<>>
    /\ results_lock = 0
    /\ instance_results = <<>>
    /\ active_instances = <<>>

\* create_instance up to the retry loop: the pricing lookup for the selected type
CreateInstancePricing ==
    /\ par.pc = "pricing"
    /\ \E price \in PricingValues :
          par' = [par EXCEPT !.instance_hourly_cost = price,
                             !.pricing_lookups = @ + 1, !.pc = "run"]
    /\ UNCHANGED <<ops, terminate_calls, calls, threads, results_lock,
                   instance_results, active_instances>>

\* The except branch of one iteration of the retry loop, after run_instances
\* has raised error: the type is noted as attempted; on a quota error the first
\* untried fallback is selected and priced, and the loop goes on unless this
\* was the last iteration; without an untried fallback, and on any other
\* error, the exception leaves create_instance.
RunInstancesFailed(c, error, price) ==
    LET attempted == Append(c.attempted_instances, c.instance_type)
        untried == UntriedFallbacks(attempted)
        noted == [c EXCEPT !.attempted_instances = attempted, !.error = error,
                           !.requested = Append(@, c.instance_type)]
    IN  IF IsQuotaError(error) /\ untried # <<>>
        THEN [noted EXCEPT !.instance_type = Head(untried),
                           !.instance_hourly_cost = price,
                           !.pricing_lookups = @ + 1,
                           !.attempt = @ + 1,
                           !.pc = IF c.attempt + 1 < max_attempts THEN "run" ELSE "raised"]
        ELSE [noted EXCEPT !.pc = "raised"]

\* One iteration of the retry loop: run_instances returns an instance id, and
\* create_instance returns it, or raises.
RunInstances ==
    /\ par.pc = "run"
    /\ par.attempt < max_attempts
    /\ \/ par' = [par EXCEPT !.requested = Append(@, par.instance_type),
                             !.error = "none",
                             !.instance_id = InstanceId(1, 1),
                             !.rate_at_creation = par.instance_hourly_cost,
                             !.lookups_at_creation = par.pricing_lookups,
                             !.pc = "created"]
       \/ \E error \in RunInstancesErrors, price \in PricingValues :
             par' = RunInstancesFailed(par, error, price)
    /\ UNCHANGED <<ops, terminate_calls, calls, threads, results_lock,
                   instance_results, active_instances>>

\* A calculate_cost call of the run on the created instance, some time later.
CalculateCostCall ==
    /\ par.pc = "created"
    /\ Len(par.costs) < MaxCostCalls
    /\ \E price \in PricingValues :
          par' = CalculateCostWithPricing([par EXCEPT !.clock = @ + 1],
                                          par.clock + 1, price)
    /\ UNCHANGED <<ops, terminate_calls, calls, threads, results_lock,
                   instance_results, active_instances>>

NextCreate ==
    \/ CreateInstancePricing
    \/ RunInstances
    \/ CalculateCostCall

SpecCreate == InitCreate /\ [][NextCreate]_vars

\* ------------------------------------------- wait_for_api_ready, the probe loop
\* The largest API_TIMEOUT_MINUTES of the model.
MaxApiTimeoutMinutes == 1

\* What a GET /health can produce: an exception (timeout, refused connection,
\* a body that is not JSON), or a status code with the body's status field.
HealthReplies ==
    {[raised |-> TRUE, status_code |-> 0, status |-> "none"],
     [raised |-> FALSE, status_code |-> 200, status |-> "healthy"],
     [raised |-> FALSE, status_code |-> 200, status |-> "starting"],
     [raised |-> FALSE, status_code |-> 503, status |-> "none"]}

NoReply == [raised |-> FALSE, status_code |-> 0, status |-> "none"]

\* Faulty variant of IsHealthy: any 200 answer counts as healthy.
IsHealthyAnyOk(reply) == ~reply.raised /\ reply.status_code = 200

\* response.status_code == 200 and data.get('status') == 'healthy'
IsHealthy(reply) ==
    ~reply.raised /\ reply.status_code = 200 /\ reply.status = "healthy"

\* max_attempts of wait_for_api_ready
HealthMaxAttempts(api_timeout_minutes) == api_timeout_minutes * 12

\* One call of execute_batch has started on a fresh manager; par holds the
\* manager's api_timeout_minutes and the locals of wait_for_api_ready.
InitHealth ==
    /\ \E n \in 0..MaxBatchScenes, auto_terminate \in BOOLEAN :
          ops = (1 :> [NewOperation EXCEPT !.pc = "create", !.start_time = 0,
                                           !.scenes = ScenesOf(n),
                                           !.auto_terminate = auto_terminate])
    /\ \E api_timeout_minutes \in -1..MaxApiTimeoutMinutes :
          par = [pc |-> "none", api_timeout_minutes |-> api_timeout_minutes,
                 attempt |-> 0, api_ready |-> "pending", reply |-> NoReply]
    /\ terminate_calls = <<>>
    /\ calls = 1
    /\ threads = <<>>
    /\ results_lock = 0
    /\ instance_results = <<>>
    /\ active_instances = <<>>

\* wait_for_api_ready returns False and execute_batch raises on it.
ApiNotReady(m) ==
    /\ Finally(m, Raise(Tick(ops[m]), "health"))
    /\ par' = [par EXCEPT !.api_ready = "false"]

\* Phase 3 with the probe loop: one iteration of wait_for_api_ready. A healthy
\* answer returns True and the job loop is entered; any other outcome counts
\* the attempt, and after the last attempt (or with no attempt to make) the
\* function returns False. The whole wait counts as one tick.
WaitForApiReadyProbe(m) ==
    /\ ops[m].pc = "wait_api"
    /\ IF par.attempt >= HealthMaxAttempts(par.api_timeout_minutes)
       THEN ApiNotReady(m)
       ELSE \E reply \in HealthReplies :
               IF IsHealthy(reply)
               THEN /\ LoopNext(m, [Tick(ops[m]) EXCEPT !.i = 1, !.pc = "loop"])
                    /\ par' = [par EXCEPT !.attempt = @ + 1, !.reply = reply,
                                          !.api_ready = "true"]
               ELSE /\ par' = [par EXCEPT !.attempt = @ + 1, !.reply = reply]
                    /\ UNCHANGED <<ops, terminate_calls>>
    /\ UNCHANGED <<calls, threads, results_lock, instance_results, active_instances>>

NextHealth ==
    \/ CreateInstance(1)
    \/ WaitForInstanceReady(1)
    \/ WaitForApiReadyProbe(1)
    \/ ProcessScene(1)
    \/ ImmediateDownload(1)
    \/ DownloadBatchResultsStep(1)
    \/ FinallyDownloaded(1)

\* The probe loop runs in the calling thread and every probe returns within
\* its timeout, so an enabled iteration is eventually taken.
SpecHealth == InitHealth /\ [][NextHealth]_vars /\ WF_vars(WaitForApiReadyProbe(1))

\* ------------------------------------------- process_single_scene, one job
\* Scene names of the jobs given to process_single_scene (SpecScene).
SceneNameSet == {1, 2}

\* The scenario labels of the render service.
Scenarios == {"baseline", "effects_only", "subtitles_only", "full_featured"}

\* What the render service sends back on one POST: nothing (the request
\* raises), or a status code with a body. A body is not JSON, or is a JSON
\* object in which file_id and size are absent, null or given and scenario is
\* absent or one of the labels.
Replies ==
    {[kind |-> "transport"]}
      \cup {[kind |-> "http", status_code |-> s, body |-> [json |-> FALSE]] :
                s \in {200, 404, 500}}
      \cup {[kind |-> "http", status_code |-> s,
             body |-> [json |-> TRUE, file_id |-> f, size |-> z, scenario |-> c]] :
                s \in {200, 404, 500},
                f \in {"absent", "null", "given"},
                z \in {"absent", "null", "zero", "given"},
                c \in Scenarios \cup {"absent"}}

\* subtitle_b64: None unless the scene names a subtitle file that exists and
\* subtitles are enabled; then the file's encoding, "" for an empty file.
SubtitleB64(scene, enable_subtitles) ==
    IF scene.subtitle # "none" /\ enable_subtitles THEN scene.subtitle ELSE "none"

\* Faulty variant of ExpectedScenario: subtitles are tested before zoom.
ExpectedScenarioSubtitleFirst(enable_zoom, subtitle_b64) ==
    IF subtitle_b64 = "text" THEN "subtitles_only"
    ELSE IF enable_zoom THEN "effects_only"
    ELSE "baseline"

\* The expected scenario: zoom and a truthy subtitle_b64 decide the label.
ExpectedScenario(enable_zoom, subtitle_b64) ==
    IF enable_zoom /\ subtitle_b64 = "text" THEN "full_featured"
    ELSE IF enable_zoom THEN "effects_only"
    ELSE IF subtitle_b64 = "text" THEN "subtitles_only"
    ELSE "baseline"

\* data.get('scenario', 'unknown')
DetectedScenario(body) == IF body.scenario = "absent" THEN "unknown" ELSE body.scenario

\* data.get('file_id')
FileIdOf(body) == IF body.file_id = "given" THEN 7 ELSE None

\* data.get('size', 0), for a size that is a number
FileSizeOf(body) == IF body.size = "given" THEN 5 ELSE 0

\* The 200 branch raises inside the try block: response.json() on a body that
\* is not JSON, or file_size/1024/1024 on a null size.
OkBranchRaises(body) == ~body.json \/ body.size = "null"

\* process_single_scene returns None: the input files could not be encoded.
ReturnsNone(scene) == ~scene.encodable

\* process_single_scene once the files are encoded: the record it returns for
\* the service's reply.
ProcessSingleScene(scene, enable_zoom, enable_subtitles, reply) ==
    IF reply.kind = "transport"
    THEN SceneFailure(scene.scene_name, "transport", 0)
    ELSE IF reply.status_code = 200
         THEN IF OkBranchRaises(reply.body)
              THEN SceneFailure(scene.scene_name, "response", 0)
              ELSE [scene_name |-> scene.scene_name, success |-> TRUE,
                    file_id |-> FileIdOf(reply.body),
                    download_url |-> <<"download", FileIdOf(reply.body)>>,
                    file_size |-> FileSizeOf(reply.body),
                    processing_time |-> 1,
                    has_subtitle |-> SubtitleB64(scene, enable_subtitles) # "none",
                    has_zoom |-> enable_zoom,
                    scenario |-> DetectedScenario(reply.body)]
         ELSE SceneFailure(scene.scene_name, "HTTP", 1)

\* What process_single_scene logs about the scenario: the expected label before
\* the request, and a warning when a 200 reply reports another one.
ScenarioLog(scene, enable_zoom, enable_subtitles, reply) ==
    LET expected == ExpectedScenario(enable_zoom, SubtitleB64(scene, enable_subtitles))
        answered == /\ reply.kind = "http"
                    /\ reply.status_code = 200
                    /\ ~OkBranchRaises(reply.body)
    IN  <<<<"expected", expected>>>> \o
        (IF answered /\ DetectedScenario(reply.body) # expected
         THEN <<<<"mismatch", DetectedScenario(reply.body)>>>>
         ELSE <<>>)

\* A manager is about to process one scene, with or without a subtitle file,
\* under the batch's two flags; the service will answer with one of the replies.
InitScene ==
    /\ \E n \in SceneNameSet, encodable \in BOOLEAN, reply \in Replies,
          subtitle \in {"none", "empty", "text"},
          enable_zoom \in BOOLEAN, enable_subtitles \in BOOLEAN :
          ops = <<[pc |-> "process",
                   scene |-> [scene_name |-> n, encodable |-> encodable,
                              subtitle |-> subtitle],
                   enable_zoom |-> enable_zoom,
                   enable_subtitles |-> enable_subtitles,
                   reply |-> reply,
                   timing_log |-> <<>>,
                   batch_results |-> <<>>]>>
    /\ par = [pc |-> "none"]
    /\ threads = << >>
    /\ terminate_calls = << >>
    /\ calls = 0
    /\ results_lock = 0
    /\ instance_results = <<>>
    /\ active_instances = <<>>

\* One iteration of the job loop up to the recording of the result: the
\* record process_single_scene returned, or the record made for None.
RecordSceneResult ==
    /\ ops[1].pc = "process"
    /\ ops' = [ops EXCEPT
                 ![1].pc = "recorded",
                 ![1].timing_log =
                    IF ReturnsNone(ops[1].scene)
                    THEN @
                    ELSE @ \o ScenarioLog(ops[1].scene, ops[1].enable_zoom,
                                          ops[1].enable_subtitles, ops[1].reply),
                 ![1].batch_results =
                    Append(@, IF ReturnsNone(ops[1].scene)
                              THEN SceneNone(ops[1].scene.scene_name)
                              ELSE ProcessSingleScene(ops[1].scene, ops[1].enable_zoom,
                                                      ops[1].enable_subtitles,
                                                      ops[1].reply))]
    /\ UNCHANGED <<terminate_calls, calls, parVars>>

NextScene == RecordSceneResult

SpecScene == InitScene /\ [][NextScene]_vars

\* execute_parallel_batches is entered with its arguments: any number of
\* scenes, any preferred and minimal batch size (zero and negative included,
\* nothing validates them), at least one instance.
InitPlanner ==
    /\ \E total_scenes \in (0..MaxTotalScenes) \cup ExampleTotals,
          scenes_per_batch \in (0 - 1)..MaxScenesPerBatch,
          max_parallel_instances \in 1..MaxParallelInstances,
          min_scenes_per_batch \in (0 - 1)..MaxMinScenesPerBatch :
          par = [pc |-> "plan",
                 total_scenes |-> total_scenes,
                 scenes_per_batch |-> scenes_per_batch,
                 max_parallel_instances |-> max_parallel_instances,
                 min_scenes_per_batch |-> min_scenes_per_batch,
                 scenes |-> ScenesDescending(total_scenes),
                 distribution_plan |-> << >>,
                 scene_batches |-> << >>]
    /\ threads = << >>
    /\ ops = << >>
    /\ terminate_calls = << >>
    /\ calls = 0
    /\ results_lock = 0
    /\ instance_results = <<>>
    /\ active_instances = <<>>

\* distribution_plan = calculate_optimal_batch_distribution(...)
PlanDistribution ==
    /\ par.pc = "plan"
    /\ par' = [par EXCEPT
                 !.pc = "planned",
                 !.distribution_plan =
                    CalculateOptimalBatchDistribution(par.total_scenes,
                        par.scenes_per_batch, par.max_parallel_instances,
                        par.min_scenes_per_batch)]
    /\ UNCHANGED <<ops, terminate_calls, calls, threads, results_lock,
                   instance_results, active_instances>>

\* The loop that splits the scenes into batches as the plan says.
SliceScenes ==
    /\ par.pc = "planned"
    /\ par' = [par EXCEPT
                 !.pc = "sliced",
                 !.scene_batches =
                    SceneBatches(par.scenes, par.distribution_plan.batch_distribution)]
    /\ UNCHANGED <<ops, terminate_calls, calls, threads, results_lock,
                   instance_results, active_instances>>

NextPlanner ==
    \/ PlanDistribution
    \/ SliceScenes

SpecPlanner == InitPlanner /\ [][NextPlanner]_vars

\* =================================================================== claims
\* Positions of the events of one kind in a timing log.
Positions(log, tag) == {p \in 1..Len(log) : log[p][1] = tag}

\* The scene names of the events of one kind, in log order.
EventNames(log, tag) ==
    LET sel == SelectSeq(log, LAMBDA e : e[1] = tag)
    IN  [p \in 1..Len(sel) |-> sel[p][2]]

SceneNames(results) == [p \in 1..Len(results) |-> results[p].scene_name]

\* C1: when a call of execute_batch has returned and create_instance had
\* returned an instance id in it, then a terminate request has been issued for
\* that instance or the call has flagged it kept-alive in its result.
C1_TerminatedOrFlagged ==
    \A m \in DOMAIN ops :
        (ops[m].pc = "returned" /\ ops[m].instance_id # None)
            => \/ TerminateCount(ops[m].instance_id) >= 1
               \/ Get(ops[m].result_dict, "instance_kept_alive", FALSE)

\* C1, as far as it holds: when a call of execute_batch has returned and
\* create_instance had returned an instance id in it, then a terminate request
\* has been issued for that instance or the manager's _instance_kept_alive
\* attribute is set, by this call or by an earlier one.
C1_TerminatedOrKeptAlive ==
    \A m \in DOMAIN ops :
        (ops[m].pc = "returned" /\ ops[m].instance_id # None)
            => \/ TerminateCount(ops[m].instance_id) >= 1
               \/ ops[m].instance_kept_alive

\* C1 witness: a call that created an instance, lost it to a failed network
\* wait and returned with the instance terminated and no kept-alive flag.
C1_Witness ==
    /\ ops[1].pc = "returned"
    /\ ops[1].instance_id # None
    /\ ops[1].fault = "network"
    /\ TerminateCount(ops[1].instance_id) >= 1
    /\ ~ops[1].instance_kept_alive

\* C3: when a call of execute_batch has returned after its network wait or
\* health wait failed on a created instance, a terminate request has been
\* issued for that instance and the result has success = false; this is
\* stated for every call, also one on a manager that completed a batch before.
C3_SetupFailureTerminates ==
    (ops[1].pc = "returned" /\ ops[1].fault \in {"network", "health"})
        => /\ TerminateCount(ops[1].instance_id) >= 1
           /\ ops[1].result_dict.success = FALSE

C5_KeptAliveOnSuccess ==
    LET op == ops[1]
    IN  (op.pc = "returned" /\ ~op.auto_terminate /\ op.fault = "none"
            /\ op.success_count >= 1)
            => /\ TerminateCount(op.instance_id) = 0
               /\ op.instance_id # None
               /\ Get(op.result_dict, "instance_kept_alive", FALSE) = TRUE
               /\ Get(op.result_dict, "instance_id", None) = op.instance_id
               /\ Get(op.result_dict, "public_ip", None) = PublicIp(op.instance_id)

\* C5 witness: a kept-alive batch with a successful and a failed job.
C5_Witness ==
    /\ ops[1].pc = "returned"
    /\ ~ops[1].auto_terminate
    /\ ops[1].fault = "none"
    /\ ops[1].success_count = 1
    /\ Len(ops[1].batch_results) = 2
    /\ TerminateCount(ops[1].instance_id) = 0

\* C38: with auto_terminate = false, a call whose job loop ran to its end
\* returns with the instance running (no terminate request issued), with the
\* manager and the result flagged kept-alive, and with success true exactly
\* when a job succeeded: a batch whose jobs all failed is kept alive and
\* reported as success = false.
C38_KeptAliveWhateverSucceeded ==
    LET op == ops[1]
    IN  (op.pc = "returned" /\ ~op.auto_terminate /\ op.fault = "none")
            => /\ TerminateCount(op.instance_id) = 0
               /\ Positions(op.timing_log, "terminate") = {}
               /\ op.instance_kept_alive
               /\ op.result_dict.instance_kept_alive
               /\ op.result_dict.success = (op.success_count > 0)
               /\ op.result_dict.successful_scenes = op.success_count

\* A batch of two jobs that both failed has returned, kept alive.
C38_Witness ==
    /\ ops[1].pc = "returned"
    /\ ~ops[1].auto_terminate
    /\ ops[1].fault = "none"
    /\ Len(ops[1].batch_results) = 2
    /\ ops[1].success_count = 0
    /\ ~ops[1].result_dict.success
    /\ ops[1].result_dict.instance_kept_alive
    /\ TerminateCount(ops[1].instance_id) = 0

\* ------------------------------------------------- the parallel run's claims
\* The partitions whose run failed by itself: in the constructor, in setup,
\* in a job or in the post-batch handling.
Faulted(b) ==
    \/ threads[b].fault # "none"
    \/ b \in DOMAIN ops /\ ops[b].fault # "none"

\* The records of partition b in the result list.
RecordsOf(b) == SelectSeq(instance_results, LAMBDA r : Get(r, "batch_id", 0) = b)

\* One step of partition b's run, in process_batch or in the execute_batch it
\* called.
ThreadStep(b) ==
    \/ b \in DOMAIN ops
        /\ (\/ CreateInstance(b)
            \/ WaitForInstanceReady(b)
            \/ WaitForApiReady(b)
            \/ ProcessScene(b)
            \/ ImmediateDownload(b)
            \/ DownloadBatchResultsStep(b))
    \/ AcquireLock(b)
    \/ RegisterInstance(b)
    \/ ProcessBatchPost(b)
    \/ AppendResult(b)
    \/ ProcessBatchStart(b)
    \/ ProcessBatchConstructorRaises(b)
    \/ ProcessBatchPostRaises(b)
    \/ ProcessBatchDownloaded(b)

\* C2: when execute_parallel_batches has returned or raised, every instance
\* created by a partition's manager during the call has received a terminate
\* request.
C2_EveryInstanceTerminated ==
    par.pc \in {"returned", "raised"}
        => \A b \in DOMAIN ops :
              ops[b].instance_id # None => TerminateCount(ops[b].instance_id) >= 1

\* C6: when the exception of an orchestrator-level failure propagates to the
\* caller, every entry of the active-instance registry has received a
\* termination call.
C6_RegistrySweptBeforeRaise ==
    par.pc = "raised"
        => \A p \in 1..Len(active_instances) :
              TerminateCount(active_instances[p].instance_id) >= 1

\* C6 witness: the aggregation raised with two instances registered, one of
\* them left running by its partition (its post-batch handling had raised) and
\* terminated by the sweep alone.
C6_Witness ==
    /\ par.pc = "raised"
    /\ Len(active_instances) = 2
    /\ par.swept = 2
    /\ \E p \in 1..2 :
          /\ threads[active_instances[p].batch_id].fault = "post"
          /\ TerminateCount(active_instances[p].instance_id) = 1

\* C7: when the aggregation starts every partition run has finished, and the
\* result list holds exactly one record per partition, with the batch ids
\* 1..N.
C7_JoinAllBarrier ==
    par.pc = "aggregate"
        => /\ \A b \in Batches : threads[b].pc = "done"
           /\ Len(instance_results) = Len(par.scene_batches)
           /\ \A b \in Batches : Len(RecordsOf(b)) = 1

\* C7 witness: the aggregation starts on two partitions, the second of which
\* finished first and one of which failed.
C7_Witness ==
    /\ par.pc = "aggregate"
    /\ Len(par.scene_batches) = 2
    /\ instance_results[1].batch_id = 2
    /\ \E b \in Batches : Faulted(b)
    /\ \E b \in Batches : ~Faulted(b)

\* C8: a partition that has been started and has not finished can always take
\* its next step unless it waits for the result lock, which another partition
\* then holds inside its critical section; and when the partitions are joined
\* every partition has contributed one record, a partition that did not fail
\* has run all of its jobs, and a partition that failed is recorded with
\* success = false while the run goes on to aggregate.
C8_PartitionsIndependent ==
    /\ \A b \in DOMAIN threads :
          threads[b].pc \notin {"unsubmitted", "done"}
              => \/ /\ WaitsForLock(b)
                    /\ results_lock \in DOMAIN threads \ {b}
                    /\ threads[results_lock].pc \in {"registering", "appending"}
                 \/ ENABLED ThreadStep(b)
    /\ par.pc = "aggregate"
          => \A b \in Batches :
                /\ Len(RecordsOf(b)) = 1
                /\ IF Faulted(b)
                   THEN RecordsOf(b)[1].success = FALSE
                   ELSE SceneNames(RecordsOf(b)[1].batch_results)
                            = BatchInfo(b).scenes

\* C8 witness: two partitions are joined, the first failed in its network
\* wait and the second ran its job successfully.
C8_Witness ==
    /\ par.pc = "aggregate"
    /\ Len(par.scene_batches) = 2
    /\ 1 \in DOMAIN ops
    /\ ops[1].fault = "network"
    /\ ~Faulted(2)
    /\ RecordsOf(2)[1].success = TRUE
    /\ RecordsOf(1)[1].success = FALSE

\* C9: in the result of a parallel run successful_scenes + failed_scenes equals
\* total_scenes, the number of input jobs.
C9_CountsAddUp ==
    par.pc = "returned"
        => /\ par.final_result.total_scenes = par.total_scenes
           /\ par.final_result.successful_scenes + par.final_result.failed_scenes
                 = par.final_result.total_scenes

\* ------------------------------------------------- the aggregation's claims
\* The per-partition records all carry success, successful_scenes and
\* failed_scenes.
CarryCounts(results) ==
    \A p \in 1..Len(results) :
        {"success", "successful_scenes", "failed_scenes"} \subseteq DOMAIN results[p]

\* C10: given partition records that carry success, successful_scenes and
\* failed_scenes, the aggregate reports as succeeded the sum of
\* successful_scenes and as failed the sum of failed_scenes over all records,
\* those with success = false included, success = (succeeded > 0), and as
\* total the number of jobs.
C10_AggregateSums ==
    LET final == par.final_result
        n == Len(instance_results)
    IN  (par.pc = "returned" /\ CarryCounts(instance_results))
            => /\ final.successful_scenes
                    = SumSeq([p \in 1..n |-> instance_results[p].successful_scenes])
               /\ final.failed_scenes
                    = SumSeq([p \in 1..n |-> instance_results[p].failed_scenes])
               /\ final.success = (final.successful_scenes > 0)
               /\ final.total_scenes
                    = final.successful_scenes + final.failed_scenes

\* C10 witness: partitions (5 succeeded, 0 failed), (0, 10, success = false)
\* and (3, 2) have been aggregated to total 20, succeeded 8, failed 12,
\* success true.
C10_Witness ==
    /\ par.pc = "returned"
    /\ Len(instance_results) = 3
    /\ CarryCounts(instance_results)
    /\ \A p \in 1..3 : instance_results[p].batch_id = p
    /\ instance_results[1].successful_scenes = 5
    /\ instance_results[1].failed_scenes = 0
    /\ instance_results[2].successful_scenes = 0
    /\ instance_results[2].failed_scenes = 10
    /\ instance_results[2].success = FALSE
    /\ instance_results[3].successful_scenes = 3
    /\ instance_results[3].failed_scenes = 2
    /\ par.final_result.total_scenes = 20
    /\ par.final_result.successful_scenes = 8
    /\ par.final_result.failed_scenes = 12
    /\ par.final_result.success = TRUE

\* The scene results the partition records carry, whatever their success.
RecordedSceneResults ==
    Flatten([p \in 1..Len(instance_results) |->
                Get(instance_results[p], "batch_results", <<>>)])

\* C11: the aggregate's batch_results holds every job result of every
\* partition record, those of records with success = false included.
C11_EveryJobResultMerged ==
    par.pc = "returned"
        => /\ Len(par.final_result.batch_results) = Len(RecordedSceneResults)
           /\ \A p \in 1..Len(RecordedSceneResults) :
                 \E q \in 1..Len(par.final_result.batch_results) :
                    par.final_result.batch_results[q] = RecordedSceneResults[p]

\* The scene results of the records with success = true.
MergedSceneResults ==
    Flatten([p \in 1..Len(instance_results) |->
                IF Get(instance_results[p], "success", FALSE)
                THEN Get(instance_results[p], "batch_results", <<>>) ELSE <<>>])

\* C12: the aggregate's batch_results is in non-decreasing order of scene
\* name and is fixed by the records merged into it, whatever the order in
\* which the partitions appended them: it holds each merged result once, and
\* results of one name are in batch order.
C12_SortedByName ==
    LET merged == par.final_result.batch_results
        n == Len(merged)
    IN  par.pc = "returned"
            => /\ \A p, q \in 1..n :
                     p < q => merged[p].scene_name <= merged[q].scene_name
               /\ n = Len(MergedSceneResults)
               /\ \A p \in 1..n : \E q \in 1..n : merged[q] = MergedSceneResults[p]
               /\ \A p \in 1..(Len(instance_results) - 1) :
                     instance_results[p].batch_id < instance_results[p + 1].batch_id

\* C12 witness: two successful partitions appended their records in reverse
\* order, the names of the first partition's scenes coming after those of the
\* second's, and their results were merged.
C12_Witness ==
    /\ par.pc = "returned"
    /\ Len(instance_results) >= 2
    /\ instance_results[1].success /\ instance_results[2].success
    /\ instance_results[1].batch_results # <<>>
    /\ instance_results[2].batch_results # <<>>
    /\ instance_results[1].batch_results[1].scene_name
          > instance_results[2].batch_results[1].scene_name
    /\ Len(par.final_result.batch_results) >= 4

\* C13: the aggregate's total_cost_usd is the sum over every partition record
\* of final_cost_usd if present, else cost_usd, records with success = false
\* included.
C13_CostOfEveryRecord ==
    par.pc = "returned"
        => par.final_result.total_cost_usd
              = SumSeq([p \in 1..Len(instance_results) |->
                          Get(instance_results[p], "final_cost_usd",
                              Get(instance_results[p], "cost_usd", 0))])

\* C14: the aggregate's success is true exactly when some partition record
\* counts a succeeded job, the record of a partition that recorded a success
\* and then failed with an exception included.
C14_SuccessIffAnyJobSucceeded ==
    par.pc = "returned"
        => par.final_result.success
              = (\E p \in 1..Len(instance_results) :
                    Get(instance_results[p], "successful_scenes", 0) > 0)

\* C39: for an empty scene list the plan is one partition of size 0; one
\* manager at most is constructed and it creates one instance at most, exactly
\* one when nothing fails; no job is dispatched; and when the call has returned
\* every instance created has been sent a terminate request and the result
\* has success = false and total_scenes = 0.
C39_EmptyListOneWorker ==
    par.total_scenes = 0
        => /\ par.batch_distribution = <<0>>
           /\ Len(par.scene_batches) = 1
           /\ \A m \in DOMAIN ops :
                  /\ m = 1
                  /\ ops[m].created <= 1
                  /\ ops[m].batch_results = <<>>
                  /\ Positions(ops[m].timing_log, "scene") = {}
           /\ par.pc = "returned" =>
                  /\ ~par.final_result.success
                  /\ par.final_result.total_scenes = 0
                  /\ \A m \in DOMAIN ops :
                         ops[m].created = 1 =>
                             TerminateCount(InstanceId(m, 1)) >= 1
                  /\ (\A b \in DOMAIN threads : ~Faulted(b)) =>
                         1 \in DOMAIN ops /\ ops[1].created = 1

\* ------------------------------------------------------ the planner's claims
\* The plan has been made.
Planned == par.pc = "planned"

\* The arguments of the call are these.
PlannerCall(total_scenes, scenes_per_batch, max_parallel_instances, min_scenes_per_batch) ==
    /\ par.total_scenes = total_scenes
    /\ par.scenes_per_batch = scenes_per_batch
    /\ par.max_parallel_instances = max_parallel_instances
    /\ par.min_scenes_per_batch = min_scenes_per_batch

\* C24: a call of terminate_instance never propagates an exception, whether
\* the EC2 call is accepted or fails, on a running instance or on one already
\* terminated, and changes nothing of the manager but its log.
C24_TerminateNeverRaises ==
    [][/\ ~par'.terminate_raised
       /\ \A m \in DOMAIN ops :
             [ops'[m] EXCEPT !.timing_log = ops[m].timing_log] = ops[m]]_vars

\* C25: at every point of a parallel run, every instance a partition has
\* created and that has not been sent a terminate request has an entry in
\* the registry of active instances.
C25_ProvisionedIsRegistered ==
    \A b \in DOMAIN ops :
        (ops[b].instance_id # None /\ TerminateCount(ops[b].instance_id) = 0)
            => \E p \in 1..Len(active_instances) :
                  active_instances[p].instance_id = ops[b].instance_id

\* The partitions inside a with results_lock block.
InCriticalSection ==
    {b \in DOMAIN threads : threads[b].pc \in {"registering", "appending"}}

\* C27: while partition threads may be running (until the orchestrator has
\* joined them), every step that changes the registry of active instances or
\* the result list is taken by the one partition that holds results_lock and
\* is inside its with block, and it appends one element, keeping what was
\* there.
C27_MutationsUnderLock ==
    [][(/\ par.pc \in {"submit", "shutdown"}
        /\ \/ instance_results' # instance_results
           \/ active_instances' # active_instances)
          => /\ InCriticalSection = {results_lock}
             /\ threads'[results_lock].pc # threads[results_lock].pc
             /\ \/ /\ active_instances' = active_instances
                   /\ instance_results'
                         = Append(instance_results, threads[results_lock].result)
                \/ /\ instance_results' = instance_results
                   /\ Len(active_instances') = Len(active_instances) + 1
                   /\ SubSeq(active_instances', 1, Len(active_instances))
                         = active_instances
                   /\ active_instances'[Len(active_instances')].batch_id
                         = results_lock]_vars

\* C27 witness: a partition is about to append its record under the lock
\* while the other partition waits for the lock, an instance having been
\* registered before.
C27_Witness ==
    /\ Len(par.scene_batches) = 2
    /\ results_lock = 2
    /\ threads[2].pc = "appending"
    /\ WaitsForLock(1)
    /\ Len(active_instances) >= 1
    /\ Len(instance_results) = 0

\* Whoever holds results_lock is a partition inside a with results_lock block,
\* whose one remaining statement is a list append, and no other partition is
\* inside such a block.
LockHeldOnlyForAppend ==
    /\ results_lock # 0 =>
           /\ results_lock \in DOMAIN threads
           /\ threads[results_lock].pc \in {"registering", "appending"}
    /\ \A b \in InCriticalSection : b = results_lock

\* The call has returned or raised and every partition thread that was
\* started has finished.
ParallelRunEnded ==
    /\ par.pc \in {"returned", "raised"}
    /\ \A b \in DOMAIN threads : threads[b].pc \in {"unsubmitted", "done"}

\* C40: a parallel run does not deadlock and ends: the lock is held only for
\* a list append, never across an external call or a wait; every partition
\* thread that was started finishes; and the call eventually returns or
\* raises, the join having been passed.
C40_ParallelRunEnds ==
    /\ []LockHeldOnlyForAppend
    /\ <>ParallelRunEnded

\* Two partitions have run, both instances were registered, both records
\* appended, and the call has returned with the lock free.
C40_Witness ==
    /\ par.pc = "returned"
    /\ Len(par.scene_batches) = 2
    /\ AllDone(Batches)
    /\ Len(active_instances) = 2
    /\ Len(instance_results) = 2
    /\ results_lock = 0

\* The termination call the sweep made on the instance of registry entry p
\* failed.
SweepCallFailed(p) ==
    LET info == active_instances[p]
    IN  Positions(ops[info.operation].timing_log, "terminate_failed") # {}

\* C24 witness: the sweep has called terminate_instance on an instance that
\* was already terminated, once with the EC2 call accepted and once with it
\* failing, and on an instance not yet terminated.
C24_Witness ==
    /\ par.pc = "raised"
    /\ Len(active_instances) = 3
    /\ TerminateCount(active_instances[1].instance_id) = 2
    /\ TerminateCount(active_instances[2].instance_id) = 1
    /\ SweepCallFailed(2)
    /\ TerminateCount(active_instances[3].instance_id) = 1
    /\ ~SweepCallFailed(3)
    /\ ~par.terminate_raised

\* C26: when the sweep's termination call on a registry entry fails, a
\* direct EC2 termination call is issued for that instance, and the sweep
\* goes on to the remaining entries.
C26_DirectCallAfterFailure ==
    /\ \A p \in 1..Len(active_instances) :
          (par.pc \in {"sweep", "raised"} /\ p <= par.swept /\ SweepCallFailed(p))
              => \E q \in 1..Len(par.direct_calls) :
                    par.direct_calls[q] = active_instances[p].instance_id
    /\ (par.pc = "raised" /\ ~par.cleanup_performed)
          => par.swept = Len(active_instances)

\* The call on manager m has completed its job loop without an exception and
\* built its result.
CompletedNormally(m) ==
    /\ ops[m].pc \in {"download_pass", "returned"}
    /\ ops[m].fault = "none"

\* C23: after a normal completion of the job loop the result has success =
\* (successful_scenes > 0), successful_scenes counts the successful job
\* results, and successful_scenes + failed_scenes = total_scenes = the number
\* of jobs given.
C23_PartialSuccessCounts ==
    \A m \in DOMAIN ops :
        CompletedNormally(m)
            => LET r == ops[m].result_dict
               IN  /\ r.success = (r.successful_scenes > 0)
                   /\ r.successful_scenes = Len(Successful(r.batch_results))
                   /\ r.successful_scenes + r.failed_scenes = r.total_scenes
                   /\ r.total_scenes = Len(ops[m].scenes)

\* C23 witness: a batch of which one job succeeded and another failed has
\* returned with success = true.
C23_Witness ==
    /\ CompletedNormally(1)
    /\ ops[1].pc = "returned"
    /\ ops[1].result_dict.success
    /\ ops[1].result_dict.successful_scenes >= 1
    /\ ops[1].result_dict.failed_scenes >= 1

\* The scenes of the jobs sent so far in the current call of manager m, in
\* the order of sending.
Dispatched(m) == EventNames(ops[m].timing_log, "scene")

\* C28: within one call the jobs are sent in input order, one at a time: the
\* jobs sent so far and the results recorded so far are both initial parts
\* of the scene list, a job is sent only when the results of all jobs before
\* it are recorded, and after a normal loop batch_results holds one record
\* per job in input order.
C28_SequentialInOrder ==
    \A m \in DOMAIN ops :
        LET op == ops[m]
            sent == Len(Dispatched(m))
            recorded == Len(op.batch_results)
        IN  /\ sent <= Len(op.scenes)
            /\ Dispatched(m) = SubSeq(op.scenes, 1, sent)
            /\ recorded <= sent
            /\ sent - recorded <= 1
            /\ SceneNames(op.batch_results) = SubSeq(op.scenes, 1, recorded)
            /\ CompletedNormally(m) => SceneNames(op.batch_results) = op.scenes

\* C28 witness: the second of two jobs has been sent and recorded after the
\* first, whose artifact was downloaded in between.
C28_Witness ==
    /\ ops[1].pc = "download"
    /\ ops[1].scenes = <<1, 2>>
    /\ Len(ops[1].timing_log) = 4
    /\ ops[1].timing_log[2] = <<"scene", 1>>
    /\ ops[1].timing_log[3] = <<"download", 1>>
    /\ ops[1].timing_log[4] = <<"scene", 2>>
    /\ Len(ops[1].batch_results) = 2

\* C29: a failed job is recorded as a failed job result with an error text,
\* no job is sent twice, a recorded failure does not end the batch (the loop
\* is left early only by an exception, with the job then in flight
\* unrecorded), and after a normal loop every job has been sent exactly once.
C29_FailureRecordedNotRetried ==
    \A m \in DOMAIN ops :
        LET op == ops[m]
            log == op.timing_log
        IN  /\ \A p \in 1..Len(op.batch_results) :
                  ~op.batch_results[p].success
                      => "error" \in DOMAIN op.batch_results[p]
            /\ \A p, q \in Positions(log, "scene") : log[p][2] = log[q][2] => p = q
            /\ op.fault = "jobs" => Len(op.batch_results) < Len(Dispatched(m))
            /\ CompletedNormally(m)
                  => \A j \in 1..Len(op.scenes) :
                        Cardinality({p \in Positions(log, "scene") :
                                        log[p][2] = op.scenes[j]}) = 1

\* C29 witness: the first job failed with a non-200 response, the second
\* succeeded, and the batch completed.
C29_Witness ==
    /\ CompletedNormally(1)
    /\ ops[1].pc = "returned"
    /\ Len(ops[1].batch_results) = 2
    /\ ~ops[1].batch_results[1].success
    /\ ops[1].batch_results[1].error = "HTTP"
    /\ ops[1].batch_results[2].success
    /\ Dispatched(1) = <<1, 2>>

RequestedBefore(n) == {par.requested[q] : q \in 1..(n - 1)}

\* C32: create_instance calls run_instances at most three times; no type is
\* requested twice; every request after the first is for the first type of the
\* fallback list (t3.xlarge, t3.large, m5.large) not requested before, and is
\* made only after a quota or capacity error; and once a quota or capacity
\* error finds every fallback type already requested, create_instance has
\* raised instead of requesting again.
C32_FallbackOrder ==
    LET req == par.requested
    IN  /\ Len(req) <= 3
        /\ \A p, q \in DOMAIN req : p < q => req[p] # req[q]
        /\ \A p \in 2..Len(req) :
               \E k \in DOMAIN FallbackOptions :
                  /\ req[p] = FallbackOptions[k]
                  /\ \A j \in 1..(k - 1) : FallbackOptions[j] \in RequestedBefore(p)
        /\ (par.pc = "run" /\ req # <<>>) => par.error \in QuotaErrors
        /\ (/\ par.error \in QuotaErrors
            /\ \A k \in DOMAIN FallbackOptions :
                   FallbackOptions[k] \in RequestedBefore(Len(req) + 1))
              => par.pc = "raised"

\* Starting from t3.large, three capacity failures have used up the fallback
\* list and create_instance has raised.
C32_Witness ==
    /\ par.pc = "raised"
    /\ par.requested = <<"t3.large", "t3.xlarge", "m5.large">>
    /\ par.error \in QuotaErrors

\* C33: a run_instances failure outside the quota and capacity class makes
\* create_instance raise in that step, with the selected type, the stored
\* hourly rate and the number of pricing lookups as they were before the
\* attempt; once create_instance has raised, nothing more is requested.
C33_OtherErrorReraised ==
    [][/\ (/\ par'.requested # par.requested
           /\ par'.error \notin (QuotaErrors \cup {"none"}))
          => /\ par'.pc = "raised"
             /\ par'.instance_type = par.instance_type
             /\ par'.instance_hourly_cost = par.instance_hourly_cost
             /\ par'.pricing_lookups = par.pricing_lookups
             /\ par'.requested = Append(par.requested, par.instance_type)
       /\ par.pc = "raised" => par' = par]_vars

\* The second attempt, on the first fallback type, has failed with an error
\* outside the class and create_instance has raised.
C33_Witness ==
    /\ par.pc = "raised"
    /\ par.error = "UnauthorizedOperation"
    /\ par.requested = <<"c5.2xlarge", "t3.xlarge">>
    /\ par.instance_type = "t3.xlarge"

\* C35: once create_instance has returned an instance, the stored hourly rate
\* is the one stored at that moment, get_instance_pricing has not been called
\* again, and every calculate_cost result of the run carries that rate,
\* whatever values the pricing lookup returns.
C35_RateFixedAfterCreation ==
    par.pc = "created" =>
        /\ par.instance_hourly_cost = par.rate_at_creation
        /\ par.pricing_lookups = par.lookups_at_creation
        /\ \A p \in DOMAIN par.costs :
               par.costs[p].hourly_rate_usd = par.rate_at_creation

\* The number of probes wait_for_api_ready may make: api_timeout_minutes x 12,
\* none for a timeout that is not positive.
ProbeLimit ==
    IF par.api_timeout_minutes > 0 THEN par.api_timeout_minutes * 12 ELSE 0

\* What holds in every state of the probe loop and after it.
ProbeLoopInvariant ==
    LET op == ops[1]
        healthy == par.reply.status_code = 200 /\ par.reply.status = "healthy"
    IN  /\ par.attempt <= ProbeLimit
        /\ op.pc = "wait_api" => par.api_ready = "pending" /\ ~healthy
        /\ par.api_ready = "true" <=> healthy
        /\ par.api_ready = "false" =>
               /\ par.attempt = ProbeLimit
               /\ op.fault = "health"
               /\ op.created = 1
               /\ op.batch_results = <<>>
               /\ Positions(op.timing_log, "scene") = {}

\* C34: wait_for_api_ready makes at most api_timeout_minutes x 12 probes; it
\* returns true at the first probe answered 200 with status healthy and at no
\* other; it returns false only when every probe has been made; it always
\* returns; and after false execute_batch has dispatched no job, holds no job
\* result and has created no second instance.
C34_ProbeLoopBounded ==
    /\ []ProbeLoopInvariant
    /\ (ops[1].pc = "wait_api") ~> (ops[1].pc # "wait_api")

\* Twelve probes of a one-minute timeout have failed, false was returned and
\* the call on a two-job batch has returned.
C34_Witness ==
    /\ par.api_ready = "false"
    /\ par.attempt = 12
    /\ Len(ops[1].scenes) = 2
    /\ ops[1].pc = "returned"

\* The label the four flag combinations stand for.
FlagLabel(zoom, captions) ==
    CASE ~zoom /\ ~captions -> "baseline"
      [] zoom /\ ~captions -> "effects_only"
      [] ~zoom /\ captions -> "subtitles_only"
      [] zoom /\ captions -> "full_featured"

\* The service answered 200 with a JSON body the 200 branch gets through.
AnsweredOk(op) ==
    /\ op.pc = "recorded"
    /\ ~ReturnsNone(op.scene)
    /\ op.reply.kind = "http"
    /\ op.reply.status_code = 200
    /\ ~OkBranchRaises(op.reply.body)

\* On a 200 answer the result is a success carrying the scenario the service
\* reported, and a mismatch with the logged expectation is logged, once.
MismatchOnlyWarns(op) ==
    AnsweredOk(op) =>
        LET r == op.batch_results[1]
            expected == EventNames(op.timing_log, "expected")
            mismatch == EventNames(op.timing_log, "mismatch")
        IN  /\ r.success
            /\ r.scenario = DetectedScenario(op.reply.body)
            /\ mismatch = IF r.scenario # expected[1] THEN <<r.scenario>> ELSE <<>>

RecordNamed(results, n) ==
    SelectSeq(results, LAMBDA r : Get(r, "scene_name", None) = n)

\* C31: a failed fetch after a successful generation, in the job loop or in
\* the download pass, leaves the job's record successful, leaves the success
\* count and the size total counting that job, adds no entry for the job to the
\* downloaded files, and is never what ends the job loop: the loop goes on to
\* the next job, and a run without fault dispatches every job.
C31_DownloadFailureIsolated ==
    \A m \in DOMAIN ops :
        LET op == ops[m]
            log == op.timing_log
            done == Successful(op.batch_results)
            failed == EventNames(log, "download_failed")
            failed_late == EventNames(log, "final_download_failed")
        IN  /\ \A p \in DOMAIN failed :
                   /\ Len(RecordNamed(done, failed[p])) = 1
                   /\ "local_path" \notin DOMAIN RecordNamed(done, failed[p])[1]
                   /\ \A q \in DOMAIN op.downloaded_files :
                          op.downloaded_files[q] # failed[p]
            /\ \A p \in DOMAIN failed_late :
                   /\ Len(RecordNamed(done, failed_late[p])) = 1
                   /\ \A q \in DOMAIN op.final_files :
                          op.final_files[q] # failed_late[p]
            /\ (failed # <<>> \/ failed_late # <<>>) =>
                   /\ op.success_count = Len(done)
                   /\ op.total_file_size =
                          SumSeq([p \in DOMAIN done |-> done[p].file_size])
            /\ \A p \in Positions(log, "download_failed") :
                   /\ p < Len(log) =>
                          /\ log[p + 1][1] # "failed"
                          /\ log[p + 1][1] # "scene" => log[p][2] = Len(op.scenes)
                   /\ p = Len(log) => op.fault = "none" /\ op.i = log[p][2] + 1
            /\ (failed # <<>> /\ CompletedNormally(m)) =>
                   Len(op.batch_results) = Len(op.scenes)

\* The first job's fetch has failed in the job loop, the second job has been
\* generated and fetched after it, and the run has completed.
C31_Witness ==
    /\ 1 \in DOMAIN ops
    /\ EventNames(ops[1].timing_log, "download_failed") = <<1>>
    /\ ops[1].downloaded_files = <<2>>
    /\ ops[1].success_count = 2
    /\ ops[1].pc = "returned"

\* C22: every job result recorded has, when success is true, a non-null
\* file_id, a download locator and a size, and when success is false an
\* error description, whatever the render service replied and also when the
\* input files could not be encoded.
C22_JobResultWellFormed ==
    \A p \in 1..Len(ops[1].batch_results) :
        LET r == ops[1].batch_results[p]
        IN  IF r.success
            THEN /\ Get(r, "file_id", None) # None
                 /\ "download_url" \in DOMAIN r
                 /\ "file_size" \in DOMAIN r
            ELSE "error" \in DOMAIN r

\* The scenes have been split into batches.
Sliced == par.pc = "sliced"

\* C21: the batches are contiguous slices of the scene list of the sizes the
\* plan gives: concatenated in batch-id order they are the scene list, every
\* scene index lies in the [start_index, end_index] range of exactly one
\* batch, and each batch starts at the previous batch's end_index + 1.
C21_ContiguousSlices ==
    Sliced
        => LET sb == par.scene_batches
               n == Len(sb)
           IN  /\ n = Len(par.distribution_plan.batch_distribution)
               /\ \A b \in 1..n :
                     /\ sb[b].batch_id = b
                     /\ Len(sb[b].scenes) = par.distribution_plan.batch_distribution[b]
               /\ Flatten([b \in 1..n |-> sb[b].scenes]) = par.scenes
               /\ \A j \in 0..(par.total_scenes - 1) :
                     Cardinality({b \in 1..n : sb[b].start_index <= j
                                                /\ j <= sb[b].end_index}) = 1
               /\ n >= 1 => sb[1].start_index = 0
               /\ \A b \in 2..n : sb[b].start_index = sb[b - 1].end_index + 1

\* C21 witness: the scenes were split into three or more batches of unequal
\* sizes.
C21_Witness ==
    /\ Sliced
    /\ Len(par.scene_batches) >= 3
    /\ Len(par.scene_batches[1].scenes) > Len(par.scene_batches[3].scenes)
    /\ par.scene_batches[3].scenes # <<>>
    /\ par.scene_batches[2].start_index = Len(par.scene_batches[1].scenes)

\* C15: for every total >= 0, every preferred and minimal batch size and every
\* max_parallel_instances >= 1 the plan's batch_distribution sums to the total
\* and has num_instances = total_batches entries.
C15_PlanSumsToTotal ==
    Planned
        => LET plan == par.distribution_plan
           IN  /\ SumSeq(plan.batch_distribution) = par.total_scenes
               /\ Len(plan.batch_distribution) = plan.num_instances
               /\ plan.total_batches = plan.num_instances

\* C15 witness: a plan of case 2 over several instances with a remainder.
C15_Witness ==
    /\ Planned
    /\ par.distribution_plan.strategy \in {"Optimal", "Adjusted"}
    /\ par.distribution_plan.num_instances >= 3
    /\ par.total_scenes % par.distribution_plan.num_instances >= 2

\* C16: for every total >= 1, non-negative preferred and minimal batch size
\* and max_parallel_instances >= 1, every entry of batch_distribution is >= 1.
C16_NoEmptyPartition ==
    (Planned /\ par.total_scenes >= 1 /\ par.scenes_per_batch >= 0
             /\ par.min_scenes_per_batch >= 0)
        => \A i \in 1..Len(par.distribution_plan.batch_distribution) :
              par.distribution_plan.batch_distribution[i] >= 1

\* C17: when total >= preferred × max_parallel_instances the plan uses exactly
\* max_parallel_instances instances, its partitions differ by at most 1 with
\* the larger ones first, and it carries the override warning.
C17_LargeBatchUsesAllInstances ==
    (Planned /\ par.total_scenes >= par.scenes_per_batch * par.max_parallel_instances)
        => LET plan == par.distribution_plan
               dist == plan.batch_distribution
           IN  /\ plan.num_instances = par.max_parallel_instances
               /\ \A i, j \in 1..Len(dist) : dist[i] - dist[j] <= 1
               /\ \A i, j \in 1..Len(dist) : i < j => dist[i] >= dist[j]
               /\ plan.warnings = <<"Overriding scenes_per_batch">>

\* C17 witness: 101 jobs with (10, 10, 5) are planned as one partition of 11
\* and nine of 10.
C17_Witness ==
    /\ Planned
    /\ PlannerCall(101, 10, 10, 5)
    /\ par.distribution_plan.num_instances = 10
    /\ par.distribution_plan.batch_distribution
          = <<11, 10, 10, 10, 10, 10, 10, 10, 10, 10>>

C37_AdjustedCarriesWarning ==
    (/\ Planned
     /\ par.total_scenes < par.scenes_per_batch * par.max_parallel_instances
     /\ par.distribution_plan.strategy # "Single instance")
        => LET plan == par.distribution_plan
               n == plan.num_instances
               gap == par.total_scenes - par.scenes_per_batch * n
               close == gap <= 2 * n /\ 0 - gap <= 2 * n
           IN  /\ plan.strategy = "Optimal" <=> close
               /\ ~close => plan.strategy = "Adjusted" /\ plan.warnings # <<>>

\* C19: 22 jobs with (10, 10, 5) are planned as 2 instances with partitions
\* [11, 11].
C19_TwentyTwoJobs ==
    (Planned /\ PlannerCall(22, 10, 10, 5))
        => /\ par.distribution_plan.num_instances = 2
           /\ par.distribution_plan.batch_distribution = <<11, 11>>

\* C20: when total <= scenes_per_batch × max_parallel_instances and the total
\* is a multiple of scenes_per_batch, every instance gets scenes_per_batch
\* scenes and only as many instances are used as that takes (50 scenes with
\* (10, 10, 5): 5 instances of 10).
C20_KeepsScenesPerBatch ==
    (Planned /\ par.scenes_per_batch >= 1 /\ par.total_scenes >= 1
             /\ par.total_scenes <= par.scenes_per_batch * par.max_parallel_instances
             /\ par.total_scenes % par.scenes_per_batch = 0)
        => LET plan == par.distribution_plan
           IN  /\ plan.num_instances = par.total_scenes \div par.scenes_per_batch
               /\ \A i \in 1..Len(plan.batch_distribution) :
                     plan.batch_distribution[i] = par.scenes_per_batch

=============================================================================
